---- MODULE Spec2Model ----
(***************************************************************************)
(* Telegram-driven portfolio CMS (server.js v1.9): the conversation engine *)
(* of bot.on('text' / 'photo' / 'video'), the stores it drives (user_state,*)
(* media, site_config, blocked_ips) and the pure helpers parseExternalLink *)
(* and parseMediaCaption.                                                  *)
(*                                                                         *)
(* Strings are sequences of atoms.  An atom is a run of characters that is *)
(* either alphanumeric only ("stall", "Expo2025"), a single space " ", or  *)
(* punctuation only ("/", "://", "-").  Every string operation of the code *)
(* (trim, split, includes, toLowerCase, slice, join, the URL parser) is    *)
(* modelled on these sequences.                                            *)
(***************************************************************************)
EXTENDS Integers, Sequences, FiniteSets, TLC

(***************************************************************************)
(* String helpers                                                          *)
(***************************************************************************)
SP == " "

\* Atoms that hold no letter and no digit.
PunctAtoms == {"/", "://", ".", "?", "=", "&", "-", "!", "#", "+", "@"}

\* String.prototype.toLowerCase on one atom.
LowerAtom(a) ==
  CASE a = "Stall" -> "stall"
    [] a = "Event" -> "event"
    [] a = "Anamorphic" -> "anamorphic"
    [] a = "General" -> "general"
    [] a = "Expo2025" -> "expo2025"
    [] a = "Night" -> "night"
    [] a = "Bob" -> "bob"
    [] a = "Add" -> "add"
    [] a = "Help" -> "help"
    [] a = "YouTube" -> "youtube"
    [] a = "A1" -> "a1"
    [] a = "My" -> "my"
    [] a = "Logo" -> "logo"
    [] OTHER -> a

\* The atom with its first character in upper case.
UpperFirstAtom(a) ==
  CASE a = "stall" -> "Stall"
    [] a = "event" -> "Event"
    [] a = "anamorphic" -> "Anamorphic"
    [] a = "general" -> "General"
    [] a = "expo2025" -> "Expo2025"
    [] a = "night" -> "Night"
    [] a = "bob" -> "Bob"
    [] a = "foo" -> "Foo"
    [] a = "a1" -> "A1"
    [] a = "my" -> "My"
    [] a = "logo" -> "Logo"
    [] OTHER -> a

toLowerCase(s) == [i \in 1..Len(s) |-> LowerAtom(s[i])]

\* s.slice(n - 1) in the code's 0-based terms: the string from atom n on.
SliceFrom(s, n) == IF n > Len(s) THEN <<>> ELSE SubSeq(s, n, Len(s))

RECURSIVE TrimLeft(_)
TrimLeft(s) == IF s # <<>> /\ Head(s) = SP THEN TrimLeft(Tail(s)) ELSE s

RECURSIVE TrimRight(_)
TrimRight(s) ==
  IF s # <<>> /\ s[Len(s)] = SP THEN TrimRight(SubSeq(s, 1, Len(s) - 1)) ELSE s

trim(s) == TrimRight(TrimLeft(s))

startsWith(s, p) == Len(s) >= Len(p) /\ SubSeq(s, 1, Len(p)) = p

includes(s, p) ==
  \E i \in 1..(Len(s) - Len(p) + 1) : SubSeq(s, i, i + Len(p) - 1) = p

\* Index of the first atom of s at or after position from that is in set S,
\* Len(s) + 1 when there is none.
RECURSIVE IndexOfAny(_, _, _)
IndexOfAny(s, S, from) ==
  IF from > Len(s) THEN Len(s) + 1
  ELSE IF s[from] \in S THEN from
  ELSE IndexOfAny(s, S, from + 1)

\* s.split(sep) for a one-atom separator: always at least one part.
RECURSIVE split(_, _)
split(s, sep) ==
  LET i == IndexOfAny(s, {sep}, 1) IN
    IF i > Len(s) THEN <<s>>
    ELSE <<SubSeq(s, 1, i - 1)>> \o split(SliceFrom(s, i + 1), sep)

\* parts.join(sep)
RECURSIVE join(_, _)
join(parts, sep) ==
  IF parts = <<>> THEN <<>>
  ELSE IF Len(parts) = 1 THEN parts[1]
  ELSE parts[1] \o <<sep>> \o join(Tail(parts), sep)

\* s.replace(/[^a-zA-Z0-9\s]/g, '')
StripNonAlnum(s) == SelectSeq(s, LAMBDA a : a \notin PunctAtoms)

(***************************************************************************)
(* parseMediaCaption                                                       *)
(***************************************************************************)
categoryWords == {<<"anamorphic">>, <<"event">>, <<"stall">>, <<"general">>}

parseMediaCaption(caption) ==
  LET lowerCaption == toLowerCase(caption)
      category ==
        IF includes(lowerCaption, <<"anamorphic">>) THEN <<"anamorphic">>
        ELSE IF includes(lowerCaption, <<"event">>) THEN <<"event">>
        ELSE IF includes(lowerCaption, <<"stall">>) THEN <<"stall">>
        ELSE <<"general">>
      words == split(caption, SP)
      firstWordLower == toLowerCase(words[1])
      projectName ==
        IF Len(words) > 1 /\ firstWordLower \in categoryWords
        THEN join(Tail(words), SP)
        ELSE join(words, SP)
      capitalized ==
        IF projectName # <<>>
        THEN <<UpperFirstAtom(projectName[1])>> \o Tail(projectName)
        ELSE projectName
  IN [category |-> category, projectName |-> StripNonAlnum(capitalized)]

(***************************************************************************)
(* parseExternalLink                                                       *)
(***************************************************************************)
Schemes == {"https", "http"}

\* new URL(input): the parts the code reads, or ok = FALSE where the
\* constructor throws (no scheme, no host, a space in the host).  The URL
\* parser removes every newline of its input first.
ParseURL(input) ==
  LET link == SelectSeq(input, LAMBDA a : a # "\n")
      hostEnd == IndexOfAny(link, {"/", "?", "#"}, 3)
      host == SubSeq(link, 3, hostEnd - 1)
      pathEnd == IndexOfAny(link, {"?", "#"}, hostEnd)
      path == SubSeq(link, hostEnd, pathEnd - 1)
      queryEnd == IndexOfAny(link, {"#"}, pathEnd)
      query == IF pathEnd <= Len(link) /\ link[pathEnd] = "?"
               THEN SubSeq(link, pathEnd + 1, queryEnd - 1)
               ELSE <<>>
      valid == /\ Len(link) >= 3
               /\ link[1] \in Schemes
               /\ link[2] = "://"
               /\ host # <<>>
               /\ SP \notin {host[i] : i \in 1..Len(host)}
  IN IF valid
     THEN [ok |-> TRUE,
           hostname |-> toLowerCase(host),
           pathname |-> IF path = <<>> THEN <<"/">> ELSE path,
           search |-> query]
     ELSE [ok |-> FALSE, hostname |-> <<>>, pathname |-> <<>>, search |-> <<>>]

\* url.searchParams.get(name): the value of the first name=value pair, or
\* absent.  A pair without "=" has the empty value.
SearchParamsGet(search, name) ==
  LET pairs == split(search, "&")
      hits == SelectSeq(pairs, LAMBDA p : p # <<>> /\ p[1] = name
                                         /\ (Len(p) = 1 \/ p[2] = "="))
  IN IF search = <<>> \/ hits = <<>>
     THEN [found |-> FALSE, value |-> <<>>]
     ELSE [found |-> TRUE, value |-> SliceFrom(hits[1], 3)]

\* parts.find((part, index) => parts[index - 1] === 'd')
FindAfterD(parts) ==
  LET idx == {i \in 2..Len(parts) : parts[i - 1] = <<"d">>} IN
    IF idx = {} THEN [found |-> FALSE, value |-> <<>>]
    ELSE [found |-> TRUE,
          value |-> parts[CHOOSE i \in idx : \A j \in idx : i <= j]]

\* null, as parseExternalLink returns it.
NoLink == [ok |-> FALSE, type |-> "", id |-> <<>>, unique_id |-> <<>>]

\* Faulty variant: the unique id is the external id alone.
LinkIdOnly(type, id) ==
  [ok |-> TRUE, type |-> type, id |-> id, unique_id |-> id]

\* { type, id, unique_id: `${type}-${id}` }
Link(type, id) ==
  [ok |-> TRUE, type |-> type, id |-> id, unique_id |-> <<type, "-">> \o id]

parseExternalLink(link) ==
  LET url == ParseURL(link) IN
    IF ~url.ok THEN NoLink
    ELSE IF \/ includes(url.hostname, <<"youtube", ".", "com">>)
            \/ includes(url.hostname, <<"youtu", ".", "be">>)
    THEN LET v == SearchParamsGet(url.search, "v")
             videoId == IF includes(url.hostname, <<"youtu", ".", "be">>)
                        THEN SliceFrom(url.pathname, 2)
                        ELSE v.value
         IN IF videoId = <<>> THEN NoLink ELSE Link("youtube", videoId)
    ELSE IF includes(url.hostname, <<"drive", ".", "google", ".", "com">>)
    THEN LET fileId == FindAfterD(split(url.pathname, "/")) IN
           IF ~fileId.found \/ fileId.value = <<>> THEN NoLink
           ELSE Link("gdrive", fileId.value)
    ELSE NoLink

(***************************************************************************)
(* Program constants and state                                             *)
(***************************************************************************)
ADMIN_CHAT_ID == "7076125469"
StrangerChatId == "1000000001"

\* Bounds of the model.
MaxHandlers == 2
MaxEvents == 1
MaxClock == 2
MaxChannels == 2

Slots == 1..MaxHandlers
Channels == 1..MaxChannels

VARIABLES
  user_state,   \* table user_state: rows [chat_id, state, context]
  media,        \* table media: rows keyed by file_unique_id
  site_config,  \* table site_config: key -> value
  blocked_ips,  \* table blocked_ips
  blockedIPs,   \* the in-memory Set the block gate reads
  now,          \* the clock: CURRENT_TIMESTAMP of the next fresh media row,
                \* Date.now() of the next live-update connection
  sseClients,   \* the notifier's list of clients: [id, res]
  channels,     \* per live-update connection: whether it is open, and the
                \* clientId its close listener holds
  published,    \* what the latest broadcastUpdate() did to each connection
  handlers      \* the event handlers in flight, one per slot

notifier == <<sseClients, channels, published>>
stores == <<media, site_config, blocked_ips, blockedIPs, now, notifier>>
vars == <<user_state, media, site_config, blocked_ips, blockedIPs, now, notifier,
          handlers>>

\* The context column: NULL, a raw text, or the JSON text of an object or of
\* an array.
NullContext == [tag |-> "null"]
TextContext(t) == [tag |-> "text", value |-> t]
ObjectContext(v) == [tag |-> "object", value |-> v]
ArrayContext(v) == [tag |-> "array", value |-> v]

IdleState == [state |-> "idle", context |-> NullContext]

initialConfig ==
  [profile_name |-> <<"Mohammed", SP, "Afzal">>,
   profile_title |-> <<"3D", SP, "Artist">>,
   profile_desc |-> <<"Passionate", SP, "3D", SP, "Artist">>,
   profile_photo_file_id |-> <<>>,
   contact_phone_1 |-> <<"+", "91", SP, "9036526421">>,
   contact_email |-> <<"afzal24052002", "@", "gmail", ".", "com">>,
   contact_call |-> <<"+", "91", SP, "9036526421">>,
   site_status |-> <<"live">>]

(***************************************************************************)
(* The update notifier                                                     *)
(***************************************************************************)
NoPublish == [wrote |-> [c \in Channels |-> "none"], threw |-> FALSE]

\* let sseClients = []: nobody has subscribed.
NoSubscribers ==
  /\ sseClients = <<>>
  /\ channels = [c \in Channels |-> [status |-> "none", clientId |-> 0]]
  /\ published = NoPublish

(***************************************************************************)
(* Inbound events                                                          *)
(***************************************************************************)
NoFile == [file_id |-> <<>>, file_unique_id |-> <<>>]

TextMsg(chat, text) ==
  [kind |-> "text", chat |-> chat, text |-> text, caption |-> <<>>,
   photo |-> <<>>, video |-> NoFile]

\* msg.photo is the list of sizes of one image, the largest last.
PhotoMsg(chat, caption, sizes) ==
  [kind |-> "photo", chat |-> chat, text |-> <<>>, caption |-> caption,
   photo |-> sizes, video |-> NoFile]

VideoMsg(chat, caption, file) ==
  [kind |-> "video", chat |-> chat, text |-> <<>>, caption |-> caption,
   photo |-> <<>>, video |-> file]

(***************************************************************************)
(* Handler records.  pc names the store call the handler is awaiting; arg  *)
(* holds what the code after that call needs.  log is the handler's        *)
(* observable trace: replies sent, notifier signals, store calls completed.*)
(* media0 and user0 are the tables as the event arrived, earlier the slots *)
(* whose handlers were in flight then, prev the replies of the handler     *)
(* that ran in the slot before.                                            *)
(***************************************************************************)
NoArg == [none |-> TRUE]

FreeHandler ==
  [pc |-> "free", msg |-> TextMsg("", <<>>), text |-> <<>>,
   state |-> "idle", context |-> NullContext, clearState |-> TRUE,
   arg |-> NoArg, tx |-> <<>>, log |-> <<>>, media0 |-> {}, user0 |-> {},
   earlier |-> {}, prev |-> <<>>]

Busy(h) == h.pc \notin {"free", "done"}

Log(h, kind, what) == [h EXCEPT !.log = Append(@, <<kind, what>>)]

\* bot.sendMessage(chatId, ...)
sendMessage(h, tag) == Log(h, "reply", tag)

\* broadcastUpdate(): one change signal to the subscribed clients.
broadcastUpdate(h) == Log(h, "broadcast", "update")

At(h, pc, arg) == [h EXCEPT !.pc = pc, !.arg = arg]
Return(h) == [h EXCEPT !.pc = "done", !.arg = NoArg]

Replies(h) == SelectSeq(h.log, LAMBDA e : e[1] = "reply")
Broadcasts(h) == Len(SelectSeq(h.log, LAMBDA e : e[1] = "broadcast"))
Entries(h, kind) == SelectSeq(h.log, LAMBDA e : e[1] = kind)

(***************************************************************************)
(* Store operations (the SQL statements of the code)                       *)
(***************************************************************************)
\* SELECT state, context FROM user_state WHERE chat_id = $1, and the default
\* of getUserState when there is no row.
SelectUserState(chatId) ==
  LET rows == {r \in user_state : r.chat_id = chatId} IN
    IF rows # {}
    THEN LET r == CHOOSE r \in rows : TRUE IN
           [state |-> r.state, context |-> r.context]
    ELSE IdleState

\* Faulty variant: a plain INSERT into a table without the primary key.
InsertUserState(chatId, state, context) ==
  user_state \cup {[chat_id |-> chatId, state |-> state, context |-> context]}

\* INSERT INTO user_state ... ON CONFLICT (chat_id) DO UPDATE SET state, context
UpsertUserState(chatId, state, context) ==
  {r \in user_state : r.chat_id # chatId}
    \cup {[chat_id |-> chatId, state |-> state, context |-> context]}

MediaRow(uid, fid, type, category, project, caption, ts) ==
  [file_unique_id |-> uid, file_id |-> fid, type |-> type,
   category |-> category, project_name |-> project, caption |-> caption,
   timestamp |-> ts]

HasMedia(m, uid) == \E r \in m : r.file_unique_id = uid

\* Faulty variant: a plain INSERT that adds the row whatever the table holds.
InsertMedia(m, row, cols) == m \cup {row}

\* Faulty variant: a conflicting row is replaced by the new row as a whole.
UpsertMediaReplacesRow(m, row, cols) ==
  {r \in m : r.file_unique_id # row.file_unique_id} \cup {row}

\* INSERT INTO media (...) VALUES (...) ON CONFLICT (file_unique_id) DO UPDATE
\* SET <cols>: a fresh row takes every value and the timestamp default, a
\* conflicting row only the columns the statement names.
UpsertMedia(m, row, cols) ==
  IF HasMedia(m, row.file_unique_id)
  THEN {IF r.file_unique_id = row.file_unique_id
        THEN [c \in DOMAIN r |-> IF c \in cols THEN row[c] ELSE r[c]]
        ELSE r : r \in m}
  ELSE m \cup {row}

\* The columns the upload statements (photo, video) update on conflict.
UploadCols == {"file_id", "category", "project_name", "caption"}
\* The columns the link statements (single add, batch) update on conflict.
LinkCols == {"file_id", "type", "category", "project_name"}

\* DELETE FROM media WHERE file_unique_id = $1
DeleteMedia(m, uid) == {r \in m : r.file_unique_id # uid}

\* UPDATE media SET <col> = $1 WHERE file_unique_id = $2
UpdateMedia(m, uid, col, value) ==
  {IF r.file_unique_id = uid THEN [r EXCEPT ![col] = value] ELSE r : r \in m}

\* The outcomes of a store call: it completes, or it throws when the run
\* lets that call fail.
Outcomes(op, F) == IF op \in F THEN {TRUE, FALSE} ELSE {TRUE}

(***************************************************************************)
(* bot.on('text'): commands                                                *)
(***************************************************************************)
Cmd(name) == <<"/", name>>

\* The commands that only set a state, and the state each sets.
CommandState ==
  [setname |-> "awaiting_name", settitle |-> "awaiting_title",
   setdesc |-> "awaiting_desc", setphone |-> "awaiting_phone",
   setcall |-> "awaiting_call", setemail |-> "awaiting_email",
   profilephoto |-> "awaiting_profilephoto",
   add |-> "awaiting_add_link", addbatch |-> "awaiting_batch_links",
   delete |-> "awaiting_delete_id", edittitle |-> "awaiting_edittitle_id",
   editdesc |-> "awaiting_editdesc_id", block |-> "awaiting_block_ip",
   unblock |-> "awaiting_unblock_ip"]

\* const [command, ...args] = text.split(' '); command.toLowerCase()
CommandOf(text) == toLowerCase(split(text, SP)[1])

IsStateCommand(command) ==
  Len(command) = 2 /\ command[1] = "/" /\ command[2] \in DOMAIN CommandState

\* The switch of the command branch, entered when clearUserState returned.
CommandSwitch(h) ==
  LET command == CommandOf(h.text) IN
    IF command \in {Cmd("start"), Cmd("help")}
    THEN Return(sendMessage(h, "help"))
    ELSE IF IsStateCommand(command)
    THEN At(h, "setUserState",
            [state |-> CommandState[command[2]], context |-> NullContext,
             reply |-> "prompt"])
    ELSE IF command = Cmd("list") THEN At(h, "listMedia", NoArg)
    ELSE IF command = Cmd("listblocked")
    THEN Return(sendMessage(h, IF blockedIPs = {} THEN "none_blocked"
                                               ELSE "blocked_list"))
    ELSE IF command = Cmd("pause")
    THEN At(h, "updateConfig",
            [key |-> "site_status", value |-> <<"paused">>, reply |-> "paused"])
    ELSE IF command = Cmd("resume")
    THEN At(h, "updateConfig",
            [key |-> "site_status", value |-> <<"live">>, reply |-> "resumed"])
    ELSE Return(sendMessage(h, "unknown_command"))

(***************************************************************************)
(* bot.on('text'): the dialog states                                       *)
(***************************************************************************)
\* The config key each simple-value state writes.
ConfigKey ==
  [awaiting_name |-> "profile_name", awaiting_title |-> "profile_title",
   awaiting_desc |-> "profile_desc", awaiting_phone |-> "contact_phone_1",
   awaiting_call |-> "contact_call", awaiting_email |-> "contact_email"]

\* JSON.stringify of a parsed link.
LinkJson(l) == [type |-> l.type, id |-> l.id, unique_id |-> l.unique_id]

\* The catch block of the handler: report the error, then clear the state.
Catch(h) == At(sendMessage(h, "error"), "clearUserState", [reply |-> ""])

\* Faulty variant: the try block ends without the trailing clearUserState.
BreakKeepsState(h) == Return(h)

\* The end of the try block: if (clearState) await clearUserState(chatId).
Break(h) ==
  IF h.clearState THEN At(h, "clearUserState", [reply |-> ""]) ELSE Return(h)

\* Faulty variant: the links are collected up to the first line that does
\* not resolve.
BatchLinksUntilInvalid(text) ==
  LET lines == split(text, "\n")
      parsed == [i \in 1..Len(lines) |-> parseExternalLink(trim(lines[i]))]
      bad == {i \in 1..Len(lines) : ~parsed[i].ok}
      n == IF bad = {} THEN Len(lines)
           ELSE (CHOOSE i \in bad : \A j \in bad : i <= j) - 1
  IN [i \in 1..n |-> LinkJson(parsed[i])]

\* text.split('\n').map(link => parseExternalLink(link.trim())).filter(Boolean)
BatchLinks(text) ==
  LET lines == split(text, "\n")
      parsed == [i \in 1..Len(lines) |-> parseExternalLink(trim(lines[i]))]
      valid == SelectSeq(parsed, LAMBDA l : l.ok)
  IN [i \in 1..Len(valid) |-> LinkJson(valid[i])]

\* JSON.parse(context) followed by the destructuring of an object throws on
\* NULL and on a text that is no JSON document.  No state of the code stores
\* a context of another shape than the one its handler reads (ContextShape),
\* so any other shape is treated as a throw as well.
IsObject(context, fields) ==
  context.tag = "object" /\ DOMAIN context.value = fields

\* case 'awaiting_name' ... 'awaiting_email'
AwaitingValue(h) ==
  At(h, "updateConfig",
     [key |-> ConfigKey[h.state], value |-> h.text, reply |-> "updated"])

\* Faulty variant: an invalid link ends the dialog.
AwaitingAddLinkResets(h) ==
  LET parsedLink == parseExternalLink(h.text) IN
    IF ~parsedLink.ok THEN Break(sendMessage(h, "invalid_link"))
    ELSE At([h EXCEPT !.clearState = FALSE], "setUserState",
            [state |-> "awaiting_add_category",
             context |-> ObjectContext(LinkJson(parsedLink)),
             reply |-> "link_received"])

\* case 'awaiting_add_link'
AwaitingAddLink(h) ==
  LET parsedLink == parseExternalLink(h.text) IN
    IF ~parsedLink.ok THEN Return(sendMessage(h, "invalid_link"))
    ELSE At([h EXCEPT !.clearState = FALSE], "setUserState",
            [state |-> "awaiting_add_category",
             context |-> ObjectContext(LinkJson(parsedLink)),
             reply |-> "link_received"])

\* Faulty variant: the category step stores the next state and leaves the
\* link as the context.
AwaitingAddCategoryKeepsLink(h) ==
  IF ~IsObject(h.context, {"type", "id", "unique_id"}) THEN Catch(h)
  ELSE At([h EXCEPT !.clearState = FALSE], "setUserState",
          [state |-> "awaiting_add_project", context |-> h.context,
           reply |-> "category_received"])

\* case 'awaiting_add_category'
AwaitingAddCategory(h) ==
  IF ~IsObject(h.context, {"type", "id", "unique_id"}) THEN Catch(h)
  ELSE At([h EXCEPT !.clearState = FALSE], "setUserState",
          [state |-> "awaiting_add_project",
           context |-> ObjectContext([fileId |-> h.context.value.id,
                                      fileUniqueId |-> h.context.value.unique_id,
                                      type |-> h.context.value.type,
                                      category |-> toLowerCase(h.text)]),
           reply |-> "category_received"])

\* Faulty variant: the record is stored under the category text of the context.
AwaitingAddProjectKeepsCategory(h) ==
  IF ~IsObject(h.context, {"fileId", "fileUniqueId", "type", "category"})
  THEN Catch(h)
  ELSE LET c == h.context.value
           parsed == parseMediaCaption(c.category \o <<SP>> \o h.text)
       IN At(h, "mediaUpsert",
             [row |-> MediaRow(c.fileUniqueId, c.fileId, c.type,
                               c.category, parsed.projectName, <<>>, 0),
              cols |-> LinkCols, reply |-> "added"])

\* case 'awaiting_add_project'
AwaitingAddProject(h) ==
  IF ~IsObject(h.context, {"fileId", "fileUniqueId", "type", "category"})
  THEN Catch(h)
  ELSE LET c == h.context.value
           parsed == parseMediaCaption(c.category \o <<SP>> \o h.text)
       IN At(h, "mediaUpsert",
             [row |-> MediaRow(c.fileUniqueId, c.fileId, c.type,
                               parsed.category, parsed.projectName, <<>>, 0),
              cols |-> LinkCols, reply |-> "added"])

\* case 'awaiting_batch_links'
AwaitingBatchLinks(h) ==
  LET links == BatchLinks(h.text) IN
    IF Len(links) = 0 THEN Return(sendMessage(h, "no_valid_links"))
    ELSE At([h EXCEPT !.clearState = FALSE], "setUserState",
            [state |-> "awaiting_batch_category",
             context |-> ArrayContext(links),
             reply |-> "batch_links_received"])

\* case 'awaiting_batch_category'
AwaitingBatchCategory(h) ==
  IF h.context.tag # "array" THEN Catch(h)
  ELSE At([h EXCEPT !.clearState = FALSE], "setUserState",
          [state |-> "awaiting_batch_project",
           context |-> ObjectContext([links |-> h.context.value,
                                      category |-> toLowerCase(h.text)]),
           reply |-> "batch_category_received"])

\* case 'awaiting_batch_project', up to db.connect()
AwaitingBatchProject(h) ==
  IF ~IsObject(h.context, {"links", "category"}) THEN Catch(h)
  ELSE LET parsed ==
             parseMediaCaption(h.context.value.category \o <<SP>> \o h.text)
       IN At(h, "connect",
             [links |-> h.context.value.links, category |-> parsed.category,
              project |-> parsed.projectName, i |-> 1, ts |-> 0])

\* case 'awaiting_edittitle_id', 'awaiting_editdesc_id'
AwaitingEditId(h, next) ==
  At([h EXCEPT !.clearState = FALSE], "setUserState",
     [state |-> next, context |-> TextContext(h.text), reply |-> "editing"])

\* case 'awaiting_profilephoto' of the text handler
AwaitingPhotoGotText(h) ==
  Break([sendMessage(h, "waiting_photo") EXCEPT !.clearState = FALSE])

\* switch (state) of the try block.
StateSwitch(h) ==
  LET state == h.state IN
  CASE state \in DOMAIN ConfigKey -> AwaitingValue(h)
    [] state = "awaiting_add_link" -> AwaitingAddLink(h)
    [] state = "awaiting_add_category" -> AwaitingAddCategory(h)
    [] state = "awaiting_add_project" -> AwaitingAddProject(h)
    [] state = "awaiting_batch_links" -> AwaitingBatchLinks(h)
    [] state = "awaiting_batch_category" -> AwaitingBatchCategory(h)
    [] state = "awaiting_batch_project" -> AwaitingBatchProject(h)
    [] state = "awaiting_delete_id" -> At(h, "mediaDelete", [id |-> h.text])
    [] state = "awaiting_edittitle_id" ->
         AwaitingEditId(h, "awaiting_edittitle_value")
    [] state = "awaiting_edittitle_value" ->
         At(h, "mediaUpdate", [col |-> "project_name", value |-> h.text])
    [] state = "awaiting_editdesc_id" ->
         AwaitingEditId(h, "awaiting_editdesc_value")
    [] state = "awaiting_editdesc_value" ->
         At(h, "mediaUpdate", [col |-> "caption", value |-> h.text])
    [] state = "awaiting_block_ip" -> At(h, "blockInsert", [ip |-> h.text])
    [] state = "awaiting_unblock_ip" -> At(h, "blockDelete", [ip |-> h.text])
    [] state = "awaiting_profilephoto" -> AwaitingPhotoGotText(h)
    [] OTHER -> Break(sendMessage(h, "confused"))

\* Faulty variant: a plain text in state idle is ignored without a reply.
TextAfterStateIgnoresIdle(h) ==
  IF startsWith(h.text, <<"/">>) THEN At(h, "cmdClear", NoArg)
  ELSE IF h.state = "idle" THEN Return(h)
  ELSE StateSwitch(h)

\* Faulty variant: the idle branch falls through to the trailing clear.
TextAfterStateIdleClears(h) ==
  IF startsWith(h.text, <<"/">>) THEN At(h, "cmdClear", NoArg)
  ELSE IF h.state = "idle" THEN Break(sendMessage(h, "idle_guidance"))
  ELSE StateSwitch(h)

\* bot.on('text') from the return of getUserState to the next store call.
TextAfterState(h) ==
  IF startsWith(h.text, <<"/">>) THEN At(h, "cmdClear", NoArg)
  ELSE IF h.state = "idle" THEN Return(sendMessage(h, "idle_guidance"))
  ELSE StateSwitch(h)

(***************************************************************************)
(* bot.on('photo'), bot.on('video')                                        *)
(***************************************************************************)
\* An upload's row: category and project from the caption.
UploadRow(file, type, caption) ==
  LET parsed == parseMediaCaption(caption) IN
    MediaRow(file.file_unique_id, file.file_id, type, parsed.category,
             parsed.projectName, caption, 0)

\* Faulty variant: every photo is a media upload.
PhotoAlwaysUpload(h) ==
  LET photo == h.msg.photo[Len(h.msg.photo)] IN
    At(h, "mediaUpsert",
       [row |-> UploadRow(photo, "photo", h.msg.caption),
        cols |-> UploadCols, reply |-> "photo_added"])

\* bot.on('photo') from the return of getUserState to the next store call.
PhotoAfterState(h) ==
  LET photo == h.msg.photo[Len(h.msg.photo)] IN
    IF h.state = "awaiting_profilephoto"
    THEN At(h, "updateConfig",
            [key |-> "profile_photo_file_id", value |-> photo.file_id,
             reply |-> "photo_updated"])
    ELSE At(h, "mediaUpsert",
            [row |-> UploadRow(photo, "photo", h.msg.caption),
             cols |-> UploadCols, reply |-> "photo_added"])

(***************************************************************************)
(* Delivery of an event: isAuthorized and the code up to the first await   *)
(***************************************************************************)
\* Faulty variant: the check lets every chat through.
isAuthorizedAny(chatId) == TRUE

isAuthorized(chatId) == chatId = ADMIN_CHAT_ID

Start(msg, inFlight, prev) ==
  LET h == [FreeHandler EXCEPT !.msg = msg, !.text = trim(msg.text),
                               !.media0 = media, !.user0 = user_state,
                               !.earlier = inFlight, !.prev = prev]
  IN IF ~isAuthorized(msg.chat) THEN Return(sendMessage(h, "unauthorized"))
     ELSE IF msg.kind = "video"
     THEN At(h, "mediaUpsert",
             [row |-> UploadRow(msg.video, "video", msg.caption),
              cols |-> UploadCols, reply |-> "video_added"])
     ELSE At(h, "getUserState", NoArg)

\* The webhook hands one update to the bot; its handler runs to its first
\* await.  E is the set of events the run delivers.
Deliver(s, E) ==
  /\ ~Busy(handlers[s])
  /\ now < MaxClock
  /\ \E msg \in E :
       handlers' =
         [t \in Slots |->
            IF t = s THEN Start(msg, {u \in Slots : Busy(handlers[u])},
                                Replies(handlers[s]))
            ELSE [handlers[t] EXCEPT !.earlier = @ \ {s}]]
  /\ UNCHANGED <<user_state, stores>>

(***************************************************************************)
(* The store calls of the handlers.  Each action is one awaited call       *)
(* completing, together with the code that runs until the next await.  F   *)
(* is the set of calls the run lets fail.                                  *)
(***************************************************************************)
Put(s, h) == handlers' = [handlers EXCEPT ![s] = h]

\* await getUserState(chatId): a failed SELECT is logged and read as idle.
GetUserState(s, F) ==
  LET h == handlers[s] IN
  /\ h.pc = "getUserState"
  /\ \E ok \in Outcomes("getUserState", F) :
       LET row == IF ok THEN SelectUserState(h.msg.chat) ELSE IdleState
           h0 == [h EXCEPT !.state = row.state, !.context = row.context]
           h1 == IF ok THEN Log(h0, "read", "user_state")
                 ELSE Log(h0, "failed", "getUserState")
       IN Put(s, IF h.msg.kind = "text" THEN TextAfterState(h1)
                 ELSE PhotoAfterState(h1))
  /\ UNCHANGED <<user_state, stores>>

\* Faulty variant: the upsert sets the state and keeps the context of the row.
WriteUserStateKeepsContext(h, ok, state, context) ==
  /\ user_state' = IF ok THEN UpsertUserState(h.msg.chat, state,
                                              SelectUserState(h.msg.chat).context)
                   ELSE user_state
  /\ UNCHANGED stores

\* setUserState(chatId, state, context): a failed upsert is logged only.
WriteUserState(h, ok, state, context) ==
  /\ user_state' = IF ok THEN UpsertUserState(h.msg.chat, state, context)
                   ELSE user_state
  /\ UNCHANGED stores

StateWritten(h, ok, state) ==
  IF ok THEN Log(h, "state", state) ELSE Log(h, "failed", "setUserState")

\* Faulty variant: the command branch goes to its switch without clearing the state.
CmdClearSkipped(s, F) ==
  LET h == handlers[s] IN
  /\ h.pc = "cmdClear"
  /\ Put(s, CommandSwitch(h))
  /\ UNCHANGED <<user_state, stores>>

\* await clearUserState(chatId) of the command branch, then the switch.
CmdClear(s, F) ==
  LET h == handlers[s] IN
  /\ h.pc = "cmdClear"
  /\ \E ok \in Outcomes("setUserState", F) :
       /\ WriteUserState(h, ok, "idle", NullContext)
       /\ Put(s, CommandSwitch(StateWritten(h, ok, "idle")))

\* await setUserState(chatId, next, context); return bot.sendMessage(...)
SetUserState(s, F) ==
  LET h == handlers[s] IN
  /\ h.pc = "setUserState"
  /\ \E ok \in Outcomes("setUserState", F) :
       /\ WriteUserState(h, ok, h.arg.state, h.arg.context)
       /\ Put(s, Return(sendMessage(StateWritten(h, ok, h.arg.state),
                                    h.arg.reply)))

\* await clearUserState(chatId) that ends a handler (and, in the photo
\* handler, precedes its reply).
ClearUserState(s, F) ==
  LET h == handlers[s] IN
  /\ h.pc = "clearUserState"
  /\ \E ok \in Outcomes("setUserState", F) :
       /\ WriteUserState(h, ok, "idle", NullContext)
       /\ LET h1 == StateWritten(h, ok, "idle") IN
            Put(s, Return(IF h.arg.reply = "" THEN h1
                          ELSE sendMessage(h1, h.arg.reply)))

\* await updateConfig(key, value): upsert, broadcast, true; false on error.
\* The callers do not read the result.
UpdateConfig(s, F) ==
  LET h == handlers[s] IN
  /\ h.pc = "updateConfig"
  /\ \E ok \in Outcomes("updateConfig", F) :
       /\ site_config' = IF ok THEN [site_config EXCEPT ![h.arg.key] = h.arg.value]
                         ELSE site_config
       /\ LET h1 == IF ok THEN broadcastUpdate(Log(h, "write", "site_config"))
                    ELSE Log(h, "failed", "updateConfig")
          IN Put(s, IF h.msg.kind = "photo"
                    THEN At(h1, "clearUserState", [reply |-> h.arg.reply])
                    ELSE IF startsWith(h.text, <<"/">>)
                    THEN Return(sendMessage(h1, h.arg.reply))
                    ELSE Break(sendMessage(h1, h.arg.reply)))
  /\ UNCHANGED <<user_state, media, blocked_ips, blockedIPs, now, notifier>>

\* Faulty variant: an upload ends like a dialog step, with the trailing
\* clearUserState.
MediaUpsertClearsState(s, F) ==
  LET h == handlers[s]
      fresh == ~HasMedia(media, h.arg.row.file_unique_id)
  IN
  /\ h.pc = "mediaUpsert"
  /\ \E ok \in Outcomes("mediaUpsert", F) :
       /\ media' = IF ok
                   THEN UpsertMedia(media, [h.arg.row EXCEPT !.timestamp = now],
                                    h.arg.cols)
                   ELSE media
       /\ now' = IF ok /\ fresh THEN now + 1 ELSE now
       /\ LET done == sendMessage(broadcastUpdate(Log(h, "write", "media")),
                                  h.arg.reply)
              failed == Log(h, "failed", "mediaUpsert")
          IN Put(s, IF ok THEN Break(done) ELSE Catch(failed))
  /\ UNCHANGED <<user_state, site_config, blocked_ips, blockedIPs, notifier>>

\* await db.query(INSERT INTO media ... ON CONFLICT ... DO UPDATE ...) of the
\* single add, the photo and the video handler.
MediaUpsert(s, F) ==
  LET h == handlers[s]
      fresh == ~HasMedia(media, h.arg.row.file_unique_id)
  IN
  /\ h.pc = "mediaUpsert"
  /\ \E ok \in Outcomes("mediaUpsert", F) :
       /\ media' = IF ok
                   THEN UpsertMedia(media, [h.arg.row EXCEPT !.timestamp = now],
                                    h.arg.cols)
                   ELSE media
       /\ now' = IF ok /\ fresh THEN now + 1 ELSE now
       /\ LET done == sendMessage(broadcastUpdate(Log(h, "write", "media")),
                                  h.arg.reply)
              failed == Log(h, "failed", "mediaUpsert")
          IN Put(s, IF h.msg.kind = "text"
                    THEN (IF ok THEN Break(done) ELSE Catch(failed))
                    ELSE IF ok THEN Return(done)
                    ELSE Return(sendMessage(failed, "upload_error")))
  /\ UNCHANGED <<user_state, site_config, blocked_ips, blockedIPs, notifier>>

\* Faulty variant: a delete that finds no record ends the dialog all the same.
MediaDeleteAlwaysClears(s, F) ==
  LET h == handlers[s]
      rowCount == Cardinality({r \in media : r.file_unique_id = h.arg.id})
  IN
  /\ h.pc = "mediaDelete"
  /\ \E ok \in Outcomes("mediaDelete", F) :
       /\ media' = IF ok THEN DeleteMedia(media, h.arg.id) ELSE media
       /\ Put(s, IF ~ok THEN Catch(Log(h, "failed", "mediaDelete"))
                 ELSE IF rowCount > 0
                 THEN Break(sendMessage(broadcastUpdate(Log(h, "write", "media")),
                                        "deleted"))
                 ELSE Break(sendMessage(h, "not_found")))
  /\ UNCHANGED <<user_state, site_config, blocked_ips, blockedIPs, now, notifier>>

\* await db.query('DELETE FROM media WHERE file_unique_id = $1', [text])
MediaDelete(s, F) ==
  LET h == handlers[s]
      rowCount == Cardinality({r \in media : r.file_unique_id = h.arg.id})
  IN
  /\ h.pc = "mediaDelete"
  /\ \E ok \in Outcomes("mediaDelete", F) :
       /\ media' = IF ok THEN DeleteMedia(media, h.arg.id) ELSE media
       /\ Put(s, IF ~ok THEN Catch(Log(h, "failed", "mediaDelete"))
                 ELSE IF rowCount > 0
                 THEN Break(sendMessage(broadcastUpdate(Log(h, "write", "media")),
                                        "deleted"))
                 ELSE Break([sendMessage(h, "not_found")
                               EXCEPT !.clearState = FALSE]))
  /\ UNCHANGED <<user_state, site_config, blocked_ips, blockedIPs, now, notifier>>

\* await db.query(`UPDATE media SET <col> = $1 WHERE file_unique_id = $2`,
\* [text, context]): the reply and the broadcast do not read the row count.
MediaUpdate(s, F) ==
  LET h == handlers[s]
      hit == h.context.tag = "text" /\ HasMedia(media, h.context.value)
  IN
  /\ h.pc = "mediaUpdate"
  /\ \E ok \in Outcomes("mediaUpdate", F) :
       /\ media' = IF ok /\ hit
                   THEN UpdateMedia(media, h.context.value, h.arg.col, h.arg.value)
                   ELSE media
       /\ Put(s, IF ~ok THEN Catch(Log(h, "failed", "mediaUpdate"))
                 ELSE Break(sendMessage(
                        broadcastUpdate(IF hit THEN Log(h, "write", "media") ELSE h),
                        "edited")))
  /\ UNCHANGED <<user_state, site_config, blocked_ips, blockedIPs, now, notifier>>

\* Faulty variant: the address is stored but not added to the in-memory set.
BlockInsertStoredOnly(s, F) ==
  LET h == handlers[s] IN
  /\ h.pc = "blockInsert"
  /\ blocked_ips' = blocked_ips \cup {h.arg.ip}
  /\ Put(s, Break(sendMessage(Log(h, "write", "blocked_ips"), "blocked")))
  /\ UNCHANGED <<user_state, media, site_config, blockedIPs, now, notifier>>

\* await db.query('INSERT INTO blocked_ips (ip) VALUES ($1) ON CONFLICT (ip)
\* DO NOTHING', [text]); blockedIPs.add(text)
BlockInsert(s, F) ==
  LET h == handlers[s] IN
  /\ h.pc = "blockInsert"
  /\ \E ok \in Outcomes("blockInsert", F) :
       /\ blocked_ips' = IF ok THEN blocked_ips \cup {h.arg.ip} ELSE blocked_ips
       /\ blockedIPs' = IF ok THEN blockedIPs \cup {h.arg.ip} ELSE blockedIPs
       /\ Put(s, IF ~ok THEN Catch(Log(h, "failed", "blockInsert"))
                 ELSE Break(sendMessage(
                        IF h.arg.ip \in blocked_ips THEN h
                        ELSE Log(h, "write", "blocked_ips"), "blocked")))
  /\ UNCHANGED <<user_state, media, site_config, now, notifier>>

\* await db.query('DELETE FROM blocked_ips WHERE ip = $1', [text]);
\* blockedIPs.delete(text)
BlockDelete(s, F) ==
  LET h == handlers[s]
      unblockCount == Cardinality(blocked_ips \cap {h.arg.ip})
  IN
  /\ h.pc = "blockDelete"
  /\ \E ok \in Outcomes("blockDelete", F) :
       /\ blocked_ips' = IF ok THEN blocked_ips \ {h.arg.ip} ELSE blocked_ips
       /\ blockedIPs' = IF ok THEN blockedIPs \ {h.arg.ip} ELSE blockedIPs
       /\ Put(s, IF ~ok THEN Catch(Log(h, "failed", "blockDelete"))
                 ELSE IF unblockCount > 0
                 THEN Break(sendMessage(Log(h, "write", "blocked_ips"), "unblocked"))
                 ELSE Break(sendMessage(h, "unblock_not_found")))
  /\ UNCHANGED <<user_state, media, site_config, now, notifier>>

\* case '/list': SELECT ... FROM media ORDER BY timestamp DESC
ListMedia(s, F) ==
  LET h == handlers[s] IN
  /\ h.pc = "listMedia"
  /\ \E ok \in Outcomes("listMedia", F) :
       Put(s, Return(sendMessage(Log(h, "read", "media"),
                                 IF ~ok THEN "list_error"
                                 ELSE IF media = {} THEN "no_media"
                                 ELSE "list")))
  /\ UNCHANGED <<user_state, stores>>

(***************************************************************************)
(* case 'awaiting_batch_project': one transaction on a pooled client.  The *)
(* rows written inside the transaction are held in h.tx and reach the      *)
(* media table, which every other connection reads, at COMMIT only.        *)
(***************************************************************************)
RECURSIVE ApplyTx(_, _)
ApplyTx(m, rows) ==
  IF rows = <<>> THEN m
  ELSE ApplyTx(UpsertMedia(m, Head(rows), LinkCols), Tail(rows))

\* finally { client.release() }
release(h) == Log(h, "client", "release")

\* const client = await db.connect(): outside the inner try.
Connect(s, F) ==
  LET h == handlers[s] IN
  /\ h.pc = "connect"
  /\ \E ok \in Outcomes("connect", F) :
       Put(s, IF ok THEN At(Log(h, "client", "connect"), "begin", h.arg)
              ELSE Catch(Log(h, "failed", "connect")))
  /\ UNCHANGED <<user_state, stores>>

\* await client.query('BEGIN'): CURRENT_TIMESTAMP of the rows is the start
\* of the transaction.
Begin(s, F) ==
  LET h == handlers[s] IN
  /\ h.pc = "begin"
  /\ \E ok \in Outcomes("begin", F) :
       /\ now' = IF ok THEN now + 1 ELSE now
       /\ Put(s, IF ok THEN At(h, "row", [h.arg EXCEPT !.ts = now])
                 ELSE At(Log(h, "failed", "begin"), "rollback", NoArg))
  /\ UNCHANGED <<user_state, media, site_config, blocked_ips, blockedIPs, notifier>>

\* Faulty variant: the loop writes each row with db.query, outside the transaction.
BatchRowAutocommit(s, F) ==
  LET h == handlers[s]
      link == h.arg.links[h.arg.i]
      row == MediaRow(link.unique_id, link.id, link.type, h.arg.category,
                      h.arg.project, <<>>, h.arg.ts)
  IN
  /\ h.pc = "row"
  /\ \E ok \in Outcomes("row", F) :
       /\ media' = IF ok THEN UpsertMedia(media, row, LinkCols) ELSE media
       /\ Put(s, IF ~ok THEN At(Log(h, "failed", "row"), "rollback", NoArg)
                 ELSE IF h.arg.i = Len(h.arg.links) THEN At(h, "commit", h.arg)
                 ELSE At(h, "row", [h.arg EXCEPT !.i = @ + 1]))
  /\ UNCHANGED <<user_state, site_config, blocked_ips, blockedIPs, now, notifier>>

\* await client.query(query, [link.unique_id, link.id, link.type, ...]) for
\* the next link of the loop.
BatchRow(s, F) ==
  LET h == handlers[s]
      link == h.arg.links[h.arg.i]
      row == MediaRow(link.unique_id, link.id, link.type, h.arg.category,
                      h.arg.project, <<>>, h.arg.ts)
  IN
  /\ h.pc = "row"
  /\ \E ok \in Outcomes("row", F) :
       Put(s, IF ~ok THEN At(Log(h, "failed", "row"), "rollback", NoArg)
              ELSE LET h1 == [h EXCEPT !.tx = Append(@, row)] IN
                     IF h.arg.i = Len(h.arg.links) THEN At(h1, "commit", h.arg)
                     ELSE At(h1, "row", [h.arg EXCEPT !.i = @ + 1]))
  /\ UNCHANGED <<user_state, stores>>

\* await client.query('COMMIT'), then the log entry, one broadcast, the
\* success reply, and the finally block.
Commit(s, F) ==
  LET h == handlers[s] IN
  /\ h.pc = "commit"
  /\ \E ok \in Outcomes("commit", F) :
       /\ media' = IF ok THEN ApplyTx(media, h.tx) ELSE media
       /\ Put(s, IF ~ok THEN At(Log(h, "failed", "commit"), "rollback", NoArg)
                 ELSE Break(release(sendMessage(
                        broadcastUpdate(Log([h EXCEPT !.tx = <<>>], "write", "media")),
                        "batch_added"))))
  /\ UNCHANGED <<user_state, site_config, blocked_ips, blockedIPs, now, notifier>>

\* Faulty variant: after a rollback the step keeps the state for a retry.
RollbackKeepsState(s, F) ==
  LET h == [handlers[s] EXCEPT !.tx = <<>>, !.clearState = FALSE] IN
  /\ h.pc = "rollback"
  /\ \E ok \in Outcomes("rollback", F) :
       Put(s, IF ok THEN Break(release(sendMessage(h, "batch_error")))
              ELSE Catch(release(Log(h, "failed", "rollback"))))
  /\ UNCHANGED <<user_state, stores>>

\* Faulty variant: the client is released after the catch block, which a
\* ROLLBACK that throws never reaches the end of.
RollbackLeaksClient(s, F) ==
  LET h == [handlers[s] EXCEPT !.tx = <<>>] IN
  /\ h.pc = "rollback"
  /\ \E ok \in Outcomes("rollback", F) :
       Put(s, IF ok THEN Break(release(sendMessage(h, "batch_error")))
              ELSE Catch(Log(h, "failed", "rollback")))
  /\ UNCHANGED <<user_state, stores>>

\* catch (e) { await client.query('ROLLBACK'); ...; await sendMessage(error) }
\* finally { client.release() }.  A ROLLBACK that throws leaves the catch
\* block before its reply and reaches the handler's outer catch.
Rollback(s, F) ==
  LET h == [handlers[s] EXCEPT !.tx = <<>>] IN
  /\ h.pc = "rollback"
  /\ \E ok \in Outcomes("rollback", F) :
       Put(s, IF ok THEN Break(release(sendMessage(h, "batch_error")))
              ELSE Catch(release(Log(h, "failed", "rollback"))))
  /\ UNCHANGED <<user_state, stores>>

(***************************************************************************)
(* Initial state and inputs                                                *)
(***************************************************************************)
\* After initializeDatabase and loadBlockedIPs on a fresh database.
Init ==
  /\ user_state = {}
  /\ media = {}
  /\ site_config = initialConfig
  /\ blocked_ips = {}
  /\ blockedIPs = {}
  /\ now = 0
  /\ NoSubscribers
  /\ handlers = [s \in Slots |-> FreeHandler]

UrlWatchA == <<"https", "://", "www", ".", "youtube", ".", "com", "/", "watch",
               "?", "v", "=", "a">>
UrlShortA == <<"https", "://", "youtu", ".", "be", "/", "a">>
UrlDriveB == <<"https", "://", "drive", ".", "google", ".", "com", "/", "file",
               "/", "d", "/", "b", "/", "view">>
UrlVimeo == <<"https", "://", "vimeo", ".", "com", "/", "a">>
IdYoutubeA == <<"youtube", "-", "a">>
IdGdriveB == <<"gdrive", "-", "b">>

Admin(texts) == {TextMsg(ADMIN_CHAT_ID, t) : t \in texts}

(***************************************************************************)
(* The single add dialog, one event at a time                              *)
(***************************************************************************)
AddEvents ==
  Admin({Cmd("add"), UrlWatchA, UrlDriveB, UrlVimeo, <<"stall">>,
         <<"Expo2025">>})

NextAdd ==
  \/ Deliver(1, AddEvents)
  \/ GetUserState(1, {})
  \/ CmdClear(1, {})
  \/ SetUserState(1, {})
  \/ ClearUserState(1, {})
  \/ MediaUpsert(1, {})

SpecAdd == Init /\ [][NextAdd]_vars

(***************************************************************************)
(* Every state of the dialog table against every kind of event            *)
(***************************************************************************)
LinkA == [type |-> "youtube", id |-> <<"a">>, unique_id |-> IdYoutubeA]
LinkB == [type |-> "gdrive", id |-> <<"b">>, unique_id |-> IdGdriveB]

\* The states the dialogs store, each with a context its dialog stores
\* with it.
TableStates ==
  {[state |-> st, context |-> NullContext] :
     st \in {"idle", "awaiting_name", "awaiting_title", "awaiting_desc",
             "awaiting_phone", "awaiting_call", "awaiting_email",
             "awaiting_profilephoto", "awaiting_add_link",
             "awaiting_batch_links", "awaiting_delete_id",
             "awaiting_edittitle_id", "awaiting_editdesc_id",
             "awaiting_block_ip", "awaiting_unblock_ip"}}
  \cup
  {[state |-> "awaiting_add_category", context |-> ObjectContext(LinkA)],
   [state |-> "awaiting_add_project",
    context |-> ObjectContext([fileId |-> LinkA.id,
                               fileUniqueId |-> LinkA.unique_id,
                               type |-> LinkA.type, category |-> <<"stall">>])],
   [state |-> "awaiting_batch_category",
    context |-> ArrayContext(<<LinkA, LinkB>>)],
   [state |-> "awaiting_batch_project",
    context |-> ObjectContext([links |-> <<LinkA, LinkB>>,
                               category |-> <<"event">>])],
   [state |-> "awaiting_edittitle_value", context |-> TextContext(IdYoutubeA)],
   [state |-> "awaiting_editdesc_value", context |-> TextContext(IdYoutubeA)]}

StateNames == {st.state : st \in TableStates}

UserRow(st) ==
  [chat_id |-> ADMIN_CHAT_ID, state |-> st.state, context |-> st.context]

\* The row the single add dialog stores for UrlWatchA, "stall", "Expo2025".
RowA == MediaRow(LinkA.unique_id, LinkA.id, LinkA.type, <<"stall">>,
                 <<"Expo2025">>, <<>>, 0)

\* The administrator is at some step of a dialog; the catalog is empty or
\* holds one link added before.
InitDialog ==
  /\ user_state \in {{UserRow(st)} : st \in TableStates} \cup {{}}
  /\ media \in {{}, {RowA}}
  /\ site_config = initialConfig
  /\ blocked_ips = {}
  /\ blockedIPs = {}
  /\ now = Cardinality(media)
  /\ NoSubscribers
  /\ handlers = [s \in Slots |-> FreeHandler]

Commands ==
  {Cmd(c) : c \in DOMAIN CommandState
              \cup {"start", "help", "list", "listblocked", "pause", "resume",
                    "bogus"}}

PhotoSizes ==
  <<[file_id |-> <<"p1small">>, file_unique_id |-> <<"u1small">>],
    [file_id |-> <<"p1large">>, file_unique_id |-> <<"u1large">>]>>
VideoFile == [file_id |-> <<"v1">>, file_unique_id |-> <<"uv1">>]

DispatchEvents ==
  Admin(Commands \cup {<<"/", "Help">>, UrlWatchA, <<"stall">>, IdYoutubeA})
  \cup {PhotoMsg(ADMIN_CHAT_ID, <<"stall", SP, "Expo2025">>, PhotoSizes),
        VideoMsg(ADMIN_CHAT_ID, <<>>, VideoFile),
        TextMsg(StrangerChatId, Cmd("add")),
        TextMsg(StrangerChatId, <<"stall">>),
        PhotoMsg(StrangerChatId, <<"stall">>, PhotoSizes),
        VideoMsg(StrangerChatId, <<"event">>, VideoFile)}

\* A run of one event.
DeliverOnce(s, E) ==
  /\ handlers[s].pc = "free"
  /\ Deliver(s, E)

\* The events of a run arrive one after the other, one per slot, MaxEvents
\* in all.
DeliverNext(s, E) ==
  /\ s <= MaxEvents
  /\ handlers[s].pc = "free"
  /\ \A t \in Slots : (t < s => handlers[t].pc = "done") /\ ~Busy(handlers[t])
  /\ Deliver(s, E)

NextDispatch ==
  \E s \in Slots :
    \/ DeliverNext(s, DispatchEvents)
    \/ GetUserState(s, {})
    \/ CmdClear(s, {})
    \/ SetUserState(s, {})
    \/ ClearUserState(s, {})
    \/ UpdateConfig(s, {})
    \/ MediaUpsert(s, {})
    \/ MediaDelete(s, {})
    \/ MediaUpdate(s, {})
    \/ BlockInsert(s, {})
    \/ BlockDelete(s, {})
    \/ ListMedia(s, {})
    \/ Connect(s, {})
    \/ Begin(s, {})
    \/ BatchRow(s, {})
    \/ Commit(s, {})

SpecDispatch == InitDialog /\ [][NextDispatch]_vars

(***************************************************************************)
(* The delete dialog, one event at a time                                  *)
(***************************************************************************)
\* The row a batch stores for the drive link in the transaction of RowA.
RowB == MediaRow(LinkB.unique_id, LinkB.id, LinkB.type, <<"stall">>,
                 <<"Expo2025">>, <<>>, 0)

\* The catalog is empty, or holds what one add stored: a single link, or the
\* two links of a batch.
InitDelete ==
  /\ user_state = {}
  /\ media \in {{}, {RowA}, {RowA, RowB}}
  /\ site_config = initialConfig
  /\ blocked_ips = {}
  /\ blockedIPs = {}
  /\ now = IF media = {} THEN 0 ELSE 1
  /\ NoSubscribers
  /\ handlers = [s \in Slots |-> FreeHandler]

DeleteEvents ==
  Admin({Cmd("delete"), Cmd("add"), IdYoutubeA, IdGdriveB, <<"stall">>})

NextDelete ==
  \/ Deliver(1, DeleteEvents)
  \/ GetUserState(1, {})
  \/ CmdClear(1, {})
  \/ SetUserState(1, {})
  \/ ClearUserState(1, {})
  \/ MediaDelete(1, {})

SpecDelete == InitDelete /\ [][NextDelete]_vars

(***************************************************************************)
(* The batch dialog with store calls of the transaction failing            *)
(***************************************************************************)
\* Three lines, the second of no supported provider.
BatchText == UrlWatchA \o <<"\n">> \o UrlVimeo \o <<"\n", SP>> \o UrlDriveB

BatchEvents ==
  Admin({Cmd("addbatch"), BatchText, UrlShortA, <<"event">>, <<"Expo2025">>})

TxCalls == {"connect", "begin", "row", "commit", "rollback"}

NextBatch ==
  \/ Deliver(1, BatchEvents)
  \/ GetUserState(1, {})
  \/ CmdClear(1, {})
  \/ SetUserState(1, {})
  \/ ClearUserState(1, {})
  \/ Connect(1, TxCalls)
  \/ Begin(1, TxCalls)
  \/ BatchRow(1, TxCalls)
  \/ Commit(1, TxCalls)
  \/ Rollback(1, TxCalls)

SpecBatch == Init /\ [][NextBatch]_vars

(***************************************************************************)
(* Two events of the administrator handled concurrently: the webhook       *)
(* starts a handler per update, and handlers interleave at their awaits.   *)
(***************************************************************************)
RaceStates ==
  {st \in TableStates :
     st.state \in {"awaiting_name", "awaiting_add_link", "awaiting_delete_id",
                   "awaiting_add_category", "awaiting_edittitle_id"}}

InitRace ==
  /\ user_state \in {{UserRow(st)} : st \in RaceStates}
  /\ media = {}
  /\ site_config = initialConfig
  /\ blocked_ips = {}
  /\ blockedIPs = {}
  /\ now = 0
  /\ NoSubscribers
  /\ handlers = [s \in Slots |-> FreeHandler]

RaceEvents == Admin({Cmd("add"), Cmd("help"), <<"Bob">>, UrlWatchA})

\* An update arrives while earlier handlers may still be in flight.
DeliverConcurrent(s, E) ==
  /\ handlers[s].pc = "free"
  /\ \A t \in Slots : t < s => handlers[t].pc # "free"
  /\ Deliver(s, E)

NextRace ==
  \E s \in Slots :
    \/ DeliverConcurrent(s, RaceEvents)
    \/ GetUserState(s, {})
    \/ CmdClear(s, {})
    \/ SetUserState(s, {})
    \/ ClearUserState(s, {})
    \/ UpdateConfig(s, {})
    \/ MediaDelete(s, {})

SpecRace == InitRace /\ [][NextRace]_vars

(***************************************************************************)
(* Every state of the dialog table against every kind of event, with any   *)
(* store call failing                                                      *)
(***************************************************************************)
StateCalls == {"getUserState", "setUserState"}
WriteCalls ==
  {"updateConfig", "mediaUpsert", "mediaDelete", "mediaUpdate", "blockInsert",
   "blockDelete"}
AllCalls == StateCalls \cup WriteCalls \cup TxCalls \cup {"listMedia"}

NextFailure ==
  \E s \in Slots :
    \/ DeliverNext(s, DispatchEvents)
    \/ GetUserState(s, AllCalls)
    \/ CmdClear(s, AllCalls)
    \/ SetUserState(s, AllCalls)
    \/ ClearUserState(s, AllCalls)
    \/ UpdateConfig(s, AllCalls)
    \/ MediaUpsert(s, AllCalls)
    \/ MediaDelete(s, AllCalls)
    \/ MediaUpdate(s, AllCalls)
    \/ BlockInsert(s, AllCalls)
    \/ BlockDelete(s, AllCalls)
    \/ ListMedia(s, AllCalls)
    \/ Connect(s, AllCalls)
    \/ Begin(s, AllCalls)
    \/ BatchRow(s, AllCalls)
    \/ Commit(s, AllCalls)
    \/ Rollback(s, AllCalls)

SpecFailure == InitDialog /\ [][NextFailure]_vars

(***************************************************************************)
(* Uploads with a caption of one to three words                            *)
(***************************************************************************)
CaptionWords == {"stall", "Stall", "event", "general", "my", "logo"}

Captions ==
  {<<w>> : w \in CaptionWords}
    \cup {<<w1, SP, w2>> : w1, w2 \in CaptionWords}
    \cup {<<w1, SP, w2, SP, w3>> : w1, w2, w3 \in CaptionWords}

CaptionEvents ==
  {VideoMsg(ADMIN_CHAT_ID, c, VideoFile) : c \in Captions}
    \cup {PhotoMsg(ADMIN_CHAT_ID, c, PhotoSizes) : c \in Captions}

NextCaption ==
  \/ DeliverOnce(1, CaptionEvents)
  \/ GetUserState(1, {})
  \/ MediaUpsert(1, {})

SpecCaption == Init /\ [][NextCaption]_vars

(***************************************************************************)
(* The link resolver on the lines of a batch text                          *)
(***************************************************************************)
VideoIds == {<<"a">>, <<"b">>}

Https(host, rest) == <<"https", "://">> \o host \o rest
WatchUrl(id) ==
  Https(<<"www", ".", "youtube", ".", "com">>, <<"/", "watch", "?", "v", "=">> \o id)
ShortUrl(id) == Https(<<"youtu", ".", "be">>, <<"/">> \o id)
DriveUrl(id) ==
  Https(<<"drive", ".", "google", ".", "com">>,
        <<"/", "file", "/", "d", "/">> \o id \o <<"/", "view">>)

\* URLs of the two providers, each with the video it denotes: the watch
\* form, the watch form with a parameter before v, the mobile host in upper
\* case, the short form with and without a query, the two Drive file forms.
ProviderForms ==
  UNION {{[url |-> WatchUrl(id), type |-> "youtube", id |-> id],
          [url |-> Https(<<"youtube", ".", "com">>,
                         <<"/", "watch", "?", "t", "=", "1", "&", "v", "=">> \o id),
           type |-> "youtube", id |-> id],
          [url |-> <<"http", "://", "m", ".", "YouTube", ".", "com", "/", "watch",
                     "?", "v", "=">> \o id,
           type |-> "youtube", id |-> id],
          [url |-> ShortUrl(id), type |-> "youtube", id |-> id],
          [url |-> ShortUrl(id) \o <<"?", "t", "=", "1">>,
           type |-> "youtube", id |-> id],
          [url |-> DriveUrl(id), type |-> "gdrive", id |-> id],
          [url |-> Https(<<"drive", ".", "google", ".", "com">>,
                         <<"/", "file", "/", "d", "/">> \o id),
           type |-> "gdrive", id |-> id]}
         : id \in VideoIds}

\* Texts that are no URL, and provider URLs without the id component.
MalformedOrIncomplete ==
  {<<"stall">>,
   <<"youtu", ".", "be", "/", "a">>,
   <<"https", "://">>,
   WatchUrl(<<>>),
   Https(<<"www", ".", "youtube", ".", "com">>, <<"/", "watch">>),
   Https(<<"www", ".", "youtube", ".", "com">>, <<"/", "embed", "/", "a">>),
   ShortUrl(<<>>),
   Https(<<"drive", ".", "google", ".", "com">>, <<"/", "open", "?", "id", "=", "b">>)}

\* URLs of hosts that belong to neither provider.
ForeignHosts ==
  {UrlVimeo,
   Https(<<"youtube", ".", "com", ".", "evil", ".", "org">>,
         <<"/", "watch", "?", "v", "=", "a">>)}

LinkInputs ==
  {f.url : f \in ProviderForms} \cup MalformedOrIncomplete \cup ForeignHosts

TwoLines(u1, u2) == u1 \o <<"\n">> \o u2

\* The administrator is at the first step of the batch dialog and sends one
\* or two lines.
InitResolve ==
  /\ user_state = {UserRow([state |-> "awaiting_batch_links",
                            context |-> NullContext])}
  /\ media = {}
  /\ site_config = initialConfig
  /\ blocked_ips = {}
  /\ blockedIPs = {}
  /\ now = 0
  /\ NoSubscribers
  /\ handlers = [s \in Slots |-> FreeHandler]

ResolveEvents ==
  Admin(LinkInputs \cup {TwoLines(u1, u2) : u1, u2 \in LinkInputs}
          \cup {BatchText, TwoLines(UrlVimeo, <<SP, "stall">>)})

NextResolve ==
  \/ DeliverOnce(1, ResolveEvents)
  \/ GetUserState(1, {})
  \/ SetUserState(1, {})

SpecResolve == InitResolve /\ [][NextResolve]_vars

(***************************************************************************)
(* Live-update clients: connects, disconnects and publishes.  Connection c *)
(* is the c-th request to /api/sse.                                        *)
(***************************************************************************)
\* The connections on the notifier's list.
Registered == {sseClients[i].res : i \in 1..Len(sseClients)}

\* Time passes.
Tick ==
  /\ now < MaxClock
  /\ now' = now + 1
  /\ published' = NoPublish
  /\ UNCHANGED <<user_state, media, site_config, blocked_ips, blockedIPs,
                 sseClients, channels, handlers>>

\* sseHandler: the client is pushed with id Date.now(), and the close
\* listener keeps that id.
sseHandler(c) ==
  /\ channels[c].status = "none"
  /\ \A d \in Channels : d < c => channels[d].status # "none"
  /\ sseClients' = Append(sseClients, [id |-> now, res |-> c])
  /\ channels' = [channels EXCEPT ![c] = [status |-> "open", clientId |-> now]]
  /\ published' = NoPublish
  /\ UNCHANGED <<user_state, media, site_config, blocked_ips, blockedIPs, now,
                 handlers>>

\* req.on('close') of connection c, also when it fires again:
\* sseClients.filter(client => client.id !== clientId)
OnClose(c) ==
  /\ channels[c].status # "none"
  /\ sseClients' = SelectSeq(sseClients,
                             LAMBDA client : client.id # channels[c].clientId)
  /\ channels' = [channels EXCEPT ![c].status = "closed"]
  /\ published' = NoPublish
  /\ UNCHANGED <<user_state, media, site_config, blocked_ips, blockedIPs, now,
                 handlers>>

\* broadcastUpdate() called by an operation: one write per client, in list
\* order.  The writes to the connections of failing do not go through; such
\* a write returns or, with throws, raises, which ends the loop and leaves
\* broadcastUpdate with the exception.
Broadcast(failing, throws) ==
  LET bad == {i \in 1..Len(sseClients) : sseClients[i].res \in failing}
      stop == IF throws /\ bad # {}
              THEN CHOOSE i \in bad : \A j \in bad : i <= j
              ELSE Len(sseClients) + 1
      outcome(c) ==
        IF \E i \in 1..Len(sseClients) :
             i <= stop /\ sseClients[i].res = c /\ c \in failing
        THEN "failed"
        ELSE IF \E i \in 1..Len(sseClients) : i < stop /\ sseClients[i].res = c
        THEN "ok"
        ELSE "none"
  IN
  /\ sseClients # <<>>
  /\ failing \subseteq Registered
  /\ published' = [wrote |-> [c \in Channels |-> outcome(c)],
                   threw |-> throws /\ bad # {}]
  /\ UNCHANGED <<user_state, media, site_config, blocked_ips, blockedIPs, now,
                 sseClients, channels, handlers>>

NextNotifier ==
  \/ Tick
  \/ \E c \in Channels : sseHandler(c) \/ OnClose(c)
  \/ \E failing \in SUBSET Channels, throws \in BOOLEAN :
       Broadcast(failing, throws)

SpecNotifier == Init /\ [][NextNotifier]_vars

(***************************************************************************)
(* The category and project steps of the single and the batch add dialog   *)
(***************************************************************************)
\* A link, respectively a batch of two links, has been accepted.
InitCategory ==
  /\ user_state \in
       {{UserRow([state |-> "awaiting_add_category",
                  context |-> ObjectContext(LinkA)])},
        {UserRow([state |-> "awaiting_batch_category",
                  context |-> ArrayContext(<<LinkA, LinkB>>)])}}
  /\ media = {}
  /\ site_config = initialConfig
  /\ blocked_ips = {}
  /\ blockedIPs = {}
  /\ now = 0
  /\ NoSubscribers
  /\ handlers = [s \in Slots |-> FreeHandler]

CategoryEvents ==
  Admin({<<"stall">>, <<"General">>, <<"Expo2025">>, <<"Event", SP, "Night">>})

NextCategory ==
  \/ Deliver(1, CategoryEvents)
  \/ GetUserState(1, {})
  \/ SetUserState(1, {})
  \/ ClearUserState(1, {})
  \/ MediaUpsert(1, {})
  \/ Connect(1, {})
  \/ Begin(1, {})
  \/ BatchRow(1, {})
  \/ Commit(1, {})

SpecCategory == InitCategory /\ [][NextCategory]_vars

(***************************************************************************)
(* The request middleware: pause gate, block gate, routes.  A request is a *)
(* message of kind "request" whose chat is the caller's address and whose  *)
(* text is the path.  SpecGate runs the bot in slot 1 and site requests in *)
(* slot 2.                                                                 *)
(***************************************************************************)
WebhookPrefix == <<"/", "api", "/", "webhook", "/">>

\* POST /api/webhook/<TELEGRAM_BOT_TOKEN>
WebhookPath == WebhookPrefix \o <<"TOKEN">>

RequestMsg(ip, path) == [TextMsg(ip, path) EXCEPT !.kind = "request"]

ClickPath == <<"/", "api", "/", "notify", "-", "click">>

\* A POST to /api/notify-click: body.mediaType, and what bot.sendMessage
\* will do when notifyAdmin calls it: "sent", "rejects" (the promise it
\* returned is rejected later) or "throws".
ClickMsg(ip, mediaType, telegram) ==
  [kind |-> "request", chat |-> ip, text |-> ClickPath, caption |-> <<>>,
   photo |-> <<>>, video |-> NoFile, mediaType |-> mediaType,
   telegram |-> telegram]

\* notifyAdmin(message): the promise of bot.sendMessage is not awaited; an
\* exception of the call itself is caught and logged.
notifyAdmin(h, tag) ==
  IF h.msg.telegram = "throws" THEN Log(h, "failed", "notifyAdmin")
  ELSE Log(h, "notify", tag)

\* Faulty variant: a media kind the endpoint does not know is refused.
notifyClickKnownKinds(h) ==
  IF h.msg.mediaType \in {<<"video">>, <<"youtube">>, <<"gdrive">>, <<"photo">>}
  THEN Return(Log(notifyAdmin(h, "clicked"), "response", "200"))
  ELSE Return(Log(h, "response", "400"))

\* app.post('/api/notify-click')
notifyClick(h) ==
  LET mediaType == h.msg.mediaType
      tag == IF mediaType = <<"video">> THEN "video_clicked"
             ELSE IF mediaType \in {<<"youtube">>, <<"gdrive">>}
             THEN "external_video_clicked"
             ELSE "image_clicked"
  IN Return(Log(notifyAdmin(h, tag), "response", "200"))

\* The block middleware, then the routes: "403" is Forbidden, "200" is what
\* the static files, the API or the fallback page answer.
BlockGate(h) ==
  IF h.msg.chat \in blockedIPs THEN Return(Log(h, "response", "403"))
  ELSE IF h.text = ClickPath THEN notifyClick(h)
  ELSE Return(Log(h, "response", "200"))

\* A request for anything but the bot's webhook arrives: the pause
\* middleware lets a path under the webhook prefix through at once and
\* reads the configuration for every other path.
Request(s, R) ==
  /\ ~Busy(handlers[s])
  /\ \E msg \in R :
       LET h == [FreeHandler EXCEPT !.msg = msg, !.text = msg.text,
                                    !.media0 = media, !.user0 = user_state]
       IN Put(s, IF startsWith(msg.text, WebhookPrefix) THEN BlockGate(h)
                 ELSE At(h, "getConfig", NoArg))
  /\ UNCHANGED <<user_state, stores>>

\* await getConfig() of the pause middleware: a failed read yields {} and
\* the request passes.
GetConfig(s, F) ==
  LET h == handlers[s] IN
  /\ h.pc = "getConfig"
  /\ \E ok \in Outcomes("getConfig", F) :
       LET status == IF ok THEN site_config.site_status ELSE <<>>
           h1 == IF ok THEN Log(h, "read", "site_config")
                 ELSE Log(h, "failed", "getConfig")
       IN Put(s, IF status = <<"paused">> THEN Return(Log(h1, "response", "503"))
                 ELSE BlockGate(h1))
  /\ UNCHANGED <<user_state, stores>>

\* A POST to the webhook path from address ip: exempt from the pause gate,
\* stopped by the block gate, else handed to the bot.
Webhook(s, ip, E) ==
  \/ /\ ip \in blockedIPs
     /\ ~Busy(handlers[s])
     /\ Put(s, BlockGate([FreeHandler EXCEPT !.msg = RequestMsg(ip, WebhookPath),
                                             !.text = WebhookPath]))
     /\ UNCHANGED <<user_state, stores>>
  \/ /\ ip \notin blockedIPs
     /\ Deliver(s, E)

\* req.ip of the callers: Telegram's server, a visitor, a visitor the
\* administrator has blocked.
Ips ==
  [telegram |-> <<"149", ".", "154", ".", "167", ".", "220">>,
   visitor |-> <<"10", ".", "0", ".", "0", ".", "1">>,
   blocked |-> <<"10", ".", "0", ".", "0", ".", "2">>]

\* The site is live or paused; the block list is empty or holds one address.
InitGate ==
  /\ user_state = {}
  /\ media = {}
  /\ \E status \in {<<"live">>, <<"paused">>} :
       site_config = [initialConfig EXCEPT !.site_status = status]
  /\ \E ips \in {{}, {Ips.blocked}} : blocked_ips = ips /\ blockedIPs = ips
  /\ now = 0
  /\ NoSubscribers
  /\ handlers = [s \in Slots |-> FreeHandler]

SiteRequests ==
  {RequestMsg(ip, p) :
     ip \in {Ips.visitor, Ips.blocked},
     p \in {<<"/">>, <<"/", "api", "/", "content">>,
            <<"/", "api", "/", "webhook">>, WebhookPrefix \o <<"x">>}}

GateEvents == Admin({Cmd("pause"), Cmd("resume"), Cmd("help")})

NextGate ==
  \/ \E ip \in {Ips.telegram, Ips.blocked} : Webhook(1, ip, GateEvents)
  \/ GetUserState(1, {})
  \/ CmdClear(1, {})
  \/ UpdateConfig(1, {})
  \/ Request(2, SiteRequests)
  \/ GetConfig(2, {})

SpecGate == InitGate /\ [][NextGate]_vars

\* The block and unblock dialogs in slot 1, site requests in slot 2.
BlockEvents ==
  Admin({Cmd("block"), Cmd("unblock"), Ips.visitor, Ips.blocked})

NextBlock ==
  \/ \E ip \in {Ips.telegram, Ips.blocked} : Webhook(1, ip, BlockEvents)
  \/ GetUserState(1, {})
  \/ CmdClear(1, {})
  \/ SetUserState(1, {})
  \/ BlockInsert(1, {})
  \/ BlockDelete(1, {})
  \/ ClearUserState(1, {})
  \/ Request(2, SiteRequests)
  \/ GetConfig(2, {})

SpecBlock == InitGate /\ [][NextBlock]_vars

\* Clicks on media of every kind, and of no kind, from a visitor and from
\* a blocked address.
ClickRequests ==
  {ClickMsg(ip, mediaType, telegram) :
     ip \in {Ips.visitor, Ips.blocked},
     mediaType \in {<<"video">>, <<"youtube">>, <<"gdrive">>, <<"photo">>, <<>>},
     telegram \in {"sent", "rejects", "throws"}}

NextClick ==
  \/ Request(2, ClickRequests)
  \/ GetConfig(2, {"getConfig"})

SpecClick == InitGate /\ [][NextClick]_vars

(***************************************************************************)
(* app.get('/api/content'): the route handler, run for a request the       *)
(* middleware has passed.  arg.files maps the profile photo (key           *)
(* <<"profile">>) and each record read (key file_unique_id) to its file id *)
(* and to where getFileUrl is with it: "pending" (awaiting getFileLink),   *)
(* "deleting" (awaiting the DELETE), "url" or "null".                      *)
(***************************************************************************)
ProfileKey == <<"profile">>

\* res.json(...) once every getFileUrl has returned: the records whose url
\* is not null.
Respond(h) ==
  IF \E k \in DOMAIN h.arg.files : h.arg.files[k].status \in {"pending", "deleting"}
  THEN h
  ELSE Return(Log(Log(h, "json", [k \in DOMAIN h.arg.files \ {ProfileKey} |->
                                    h.arg.files[k].status]),
                  "response", "200"))

\* media.map(async item => ...): Telegram files need getFileUrl, the url of
\* a link is built from its file id.
Enrich(h) ==
  Respond(At(h, "enrich",
             [rows |-> h.arg.rows,
              files |-> [k \in {r.file_unique_id : r \in h.arg.rows} |->
                           LET r == CHOOSE r \in h.arg.rows : r.file_unique_id = k
                           IN [file_id |-> r.file_id,
                               status |-> IF r.type \in {"photo", "video"}
                                          THEN "pending" ELSE "url"]]]))

ContentRequest(s, ip) ==
  /\ ~Busy(handlers[s])
  /\ Put(s, At([FreeHandler EXCEPT
                  !.msg = RequestMsg(ip, <<"/", "api", "/", "content">>),
                  !.text = <<"/", "api", "/", "content">>,
                  !.media0 = media, !.user0 = user_state],
               "contentConfig", NoArg))
  /\ UNCHANGED <<user_state, stores>>

\* await getConfig(): {} when the read fails.
ContentGetConfig(s, F) ==
  LET h == handlers[s] IN
  /\ h.pc = "contentConfig"
  /\ \E ok \in Outcomes("getConfig", F) :
       Put(s, At(IF ok THEN Log(h, "read", "site_config")
                 ELSE Log(h, "failed", "getConfig"),
                 "contentSelect",
                 [photo |-> IF ok THEN site_config.profile_photo_file_id
                            ELSE <<>>]))
  /\ UNCHANGED <<user_state, stores>>

\* await db.query('SELECT * FROM media ORDER BY timestamp DESC'), then the
\* profile photo if one is configured, else the records.
ContentSelect(s, F) ==
  LET h == handlers[s] IN
  /\ h.pc = "contentSelect"
  /\ \E ok \in Outcomes("contentSelect", F) :
       Put(s, IF ~ok
              THEN Return(Log(Log(h, "failed", "contentSelect"), "response", "500"))
              ELSE LET h1 == Log(h, "read", "media") IN
                   IF h.arg.photo # <<>>
                   THEN At(h1, "profile",
                           [rows |-> media,
                            files |-> [k \in {ProfileKey} |->
                                         [file_id |-> h.arg.photo,
                                          status |-> "pending"]]])
                   ELSE Enrich(At(h1, "enrich", [rows |-> media])))
  /\ UNCHANGED <<user_state, stores>>

\* After a getFileUrl has returned: the profile photo is followed by the
\* records, the last record by the response.
FileUrlReturned(h) == IF h.pc = "profile" THEN Enrich(h) ELSE Respond(h)

\* await bot.getFileLink(fileId) of one getFileUrl: the link, an error
\* whose message contains '400', or another error.
GetFileLink(s) ==
  LET h == handlers[s] IN
  /\ h.pc \in {"profile", "enrich"}
  /\ \E k \in DOMAIN h.arg.files, outcome \in {"ok", "400", "other"} :
       /\ h.arg.files[k].status = "pending"
       /\ LET status == CASE outcome = "ok" -> "url"
                          [] outcome = "400" -> "deleting"
                          [] OTHER -> "null"
              h1 == [h EXCEPT !.arg.files[k].status = status]
              h2 == CASE outcome = "ok" -> h1
                      [] outcome = "400" -> Log(h1, "failed", "getFileLink400")
                      [] OTHER -> Log(h1, "failed", "getFileLink")
          IN Put(s, IF status = "deleting" THEN h2 ELSE FileUrlReturned(h2))
  /\ UNCHANGED <<user_state, stores>>

\* await db.query('DELETE FROM media WHERE file_id = $1', [fileId]) of one
\* getFileUrl, then broadcastUpdate(); a failed DELETE is logged only.
DeleteStale(s, F) ==
  LET h == handlers[s] IN
  /\ h.pc \in {"profile", "enrich"}
  /\ \E k \in DOMAIN h.arg.files, ok \in Outcomes("deleteStale", F) :
       /\ h.arg.files[k].status = "deleting"
       /\ LET stale == {r \in media : r.file_id = h.arg.files[k].file_id}
              h1 == [h EXCEPT !.arg.files[k].status = "null"]
              h2 == IF ~ok THEN Log(h1, "failed", "deleteStale")
                    ELSE broadcastUpdate(IF stale # {}
                                         THEN Log(h1, "write", "media") ELSE h1)
          IN /\ media' = IF ok THEN media \ stale ELSE media
             /\ Put(s, FileUrlReturned(h2))
  /\ UNCHANGED <<user_state, site_config, blocked_ips, blockedIPs, now, notifier>>

\* The catalog holds a photo, a video and a link, or the link only; a
\* profile photo is configured or not.
InitContent ==
  /\ user_state = {}
  /\ media \in {{RowA},
                {RowA, UploadRow(PhotoSizes[2], "photo", <<"stall">>),
                 UploadRow(VideoFile, "video", <<>>)}}
  /\ \E photo \in {<<>>, <<"p0">>} :
       site_config = [initialConfig EXCEPT !.profile_photo_file_id = photo]
  /\ blocked_ips = {}
  /\ blockedIPs = {}
  /\ now = 1
  /\ NoSubscribers
  /\ handlers = [s \in Slots |-> FreeHandler]

NextContent ==
  \/ ContentRequest(1, Ips.visitor)
  \/ ContentGetConfig(1, {"getConfig"})
  \/ ContentSelect(1, {"contentSelect"})
  \/ GetFileLink(1)
  \/ DeleteStale(1, {"deleteStale"})

SpecContent == InitContent /\ [][NextContent]_vars

(***************************************************************************)
(* Records stored earlier are ingested again and edited                    *)
(***************************************************************************)
\* The link of RowA after /editdesc gave it a note.
NotedRowA == [RowA EXCEPT !.caption = <<"note">>]

ReingestStates ==
  {st \in TableStates :
     st.state \in {"awaiting_add_project", "awaiting_batch_project",
                   "awaiting_edittitle_value", "awaiting_editdesc_value"}}

\* The catalog holds two links, a photo and a video, all stored before the
\* clock's present value; the administrator is at the last step of a dialog.
InitReingest ==
  /\ user_state \in {{UserRow(st)} : st \in ReingestStates}
  /\ media = {NotedRowA, RowB, UploadRow(PhotoSizes[2], "photo", <<"stall">>),
              UploadRow(VideoFile, "video", <<>>)}
  /\ site_config = initialConfig
  /\ blocked_ips = {}
  /\ blockedIPs = {}
  /\ now = 1
  /\ NoSubscribers
  /\ handlers = [s \in Slots |-> FreeHandler]

ReingestEvents ==
  Admin({<<"Expo2026">>})
    \cup {PhotoMsg(ADMIN_CHAT_ID, <<"event", SP, "Night">>, PhotoSizes),
          VideoMsg(ADMIN_CHAT_ID, <<"logo">>, VideoFile)}

NextReingest ==
  \/ Deliver(1, ReingestEvents)
  \/ GetUserState(1, {})
  \/ ClearUserState(1, {})
  \/ MediaUpsert(1, {})
  \/ MediaUpdate(1, {})
  \/ Connect(1, {})
  \/ Begin(1, {})
  \/ BatchRow(1, {})
  \/ Commit(1, {})

SpecReingest == InitReingest /\ [][NextReingest]_vars

(***************************************************************************)
(* Free text at the category and project prompts and in captions           *)
(***************************************************************************)
FreeTextEvents ==
  Admin({<<"stall">>, <<"Expo2025">>, <<"Event", SP, "Night">>,
         <<"Wedding", "!">>})
    \cup {PhotoMsg(ADMIN_CHAT_ID, <<"my", SP, "logo">>, PhotoSizes),
          VideoMsg(ADMIN_CHAT_ID, <<"Wedding", SP, "stall">>, VideoFile)}

NextFreeText ==
  \/ Deliver(1, FreeTextEvents)
  \/ GetUserState(1, {})
  \/ SetUserState(1, {})
  \/ ClearUserState(1, {})
  \/ MediaUpsert(1, {})
  \/ Connect(1, {})
  \/ Begin(1, {})
  \/ BatchRow(1, {})
  \/ Commit(1, {})

SpecFreeText == InitCategory /\ [][NextFreeText]_vars

(***************************************************************************)
(* Block and unblock steps of handlers in flight together.  The statement  *)
(* of a step takes effect in the database when the database runs it; its   *)
(* result reaches the handler later, and the statements and results of     *)
(* other handlers may come in between.                                     *)
(***************************************************************************)
\* The INSERT, respectively the DELETE, of a step runs in the database.
BlockQuery(s, F) ==
  LET h == handlers[s]
      ip == h.arg.ip
  IN
  /\ h.pc \in {"blockInsert", "blockDelete"}
  /\ \E ok \in Outcomes(h.pc, F) :
       /\ blocked_ips' = IF ~ok THEN blocked_ips
                         ELSE IF h.pc = "blockInsert" THEN blocked_ips \cup {ip}
                         ELSE blocked_ips \ {ip}
       /\ Put(s, At(IF ok /\ (h.pc = "blockInsert" <=> ip \notin blocked_ips)
                    THEN Log(h, "write", "blocked_ips") ELSE h,
                    "blockResult",
                    [ip |-> ip, op |-> h.pc, ok |-> ok,
                     rowCount |-> Cardinality(blocked_ips \cap {ip})]))
  /\ UNCHANGED <<user_state, media, site_config, blockedIPs, now, notifier>>

\* The await returns: blockedIPs.add(text), respectively
\* blockedIPs.delete(text), and the reply; an error goes to the catch block.
BlockQueryReturns(s) ==
  LET h == handlers[s]
      ip == h.arg.ip
  IN
  /\ h.pc = "blockResult"
  /\ blockedIPs' = IF ~h.arg.ok THEN blockedIPs
                    ELSE IF h.arg.op = "blockInsert" THEN blockedIPs \cup {ip}
                    ELSE blockedIPs \ {ip}
  /\ Put(s, IF ~h.arg.ok THEN Catch(Log(h, "failed", h.arg.op))
            ELSE IF h.arg.op = "blockInsert" THEN Break(sendMessage(h, "blocked"))
            ELSE IF h.arg.rowCount > 0 THEN Break(sendMessage(h, "unblocked"))
            ELSE Break(sendMessage(h, "unblock_not_found")))
  /\ UNCHANGED <<user_state, media, site_config, blocked_ips, now, notifier>>

\* The administrator is at the address step of the block or of the unblock
\* dialog; the block list is empty or holds one address, and the in-memory
\* set is what loadBlockedIPs made of it: the list, or nothing when its
\* SELECT failed.
InitBlockRace ==
  /\ user_state \in {{UserRow([state |-> st, context |-> NullContext])} :
                       st \in {"awaiting_block_ip", "awaiting_unblock_ip"}}
  /\ media = {}
  /\ site_config = initialConfig
  /\ blocked_ips \in {{}, {Ips.blocked}}
  /\ blockedIPs \in {blocked_ips, {}}
  /\ now = 0
  /\ NoSubscribers
  /\ handlers = [s \in Slots |-> FreeHandler]

\* The dialog text of slot 1 is in flight while slot 2 takes one update
\* after the other.
BlockRaceEvents == Admin({Cmd("block"), Cmd("unblock"), Ips.blocked})

NextBlockRace ==
  \/ DeliverOnce(1, {e \in BlockRaceEvents : ~startsWith(e.text, <<"/">>)})
  \/ Deliver(2, BlockRaceEvents)
  \/ \E s \in {1, 2} :
       \/ GetUserState(s, {})
       \/ CmdClear(s, {})
       \/ SetUserState(s, {})
       \/ ClearUserState(s, {})
       \/ BlockQuery(s, {"blockInsert", "blockDelete"})
       \/ BlockQueryReturns(s)

SpecBlockRace == InitBlockRace /\ [][NextBlockRace]_vars

(***************************************************************************)
(* Two updates of the administrator in flight together, at every step of   *)
(* the dialogs that store a context                                        *)
(***************************************************************************)
InitShape ==
  /\ InitDialog
  /\ \E r \in user_state :
       r.state \in {"awaiting_add_link", "awaiting_add_category",
                    "awaiting_add_project", "awaiting_batch_links",
                    "awaiting_batch_category", "awaiting_batch_project",
                    "awaiting_edittitle_id", "awaiting_edittitle_value"}

ShapeEvents ==
  Admin({Cmd("add"), Cmd("addbatch"), Cmd("edittitle"), UrlWatchA, <<"stall">>})

NextShape ==
  \/ DeliverOnce(1, ShapeEvents)
  \/ /\ handlers[1].pc # "free"
     /\ DeliverOnce(2, ShapeEvents)
  \/ \E s \in {1, 2} :
       \/ GetUserState(s, {})
       \/ CmdClear(s, {})
       \/ SetUserState(s, {})
       \/ ClearUserState(s, {})
       \/ MediaUpsert(s, {})
       \/ MediaUpdate(s, {})
       \/ Connect(s, {})
       \/ Begin(s, {})
       \/ BatchRow(s, {})
       \/ Commit(s, {})

SpecShape == InitShape /\ [][NextShape]_vars

(***************************************************************************)
(* The project text of the single add dialog is delivered twice            *)
(***************************************************************************)
\* The link and the category have been accepted; the catalog is empty or
\* holds the other link, or this link from an earlier add.
InitRedeliver ==
  /\ user_state \in {{UserRow(st)} :
                       st \in {t \in TableStates : t.state = "awaiting_add_project"}}
  /\ media \in {{}, {RowB}, {[RowA EXCEPT !.project_name = <<"Old">>]}}
  /\ site_config = initialConfig
  /\ blocked_ips = {}
  /\ blockedIPs = {}
  /\ now = Cardinality(media)
  /\ NoSubscribers
  /\ handlers = [s \in Slots |-> FreeHandler]

\* The transport delivers the update of slot 1 once more, while its handler
\* is in flight or after it.
Redeliver(s) ==
  /\ handlers[1].pc # "free"
  /\ DeliverOnce(s, Admin({handlers[1].msg.text}))

RedeliverEvents == Admin({<<"Expo2025">>, <<"Expo2026">>})

NextRedeliver ==
  \/ DeliverOnce(1, RedeliverEvents)
  \/ Redeliver(2)
  \/ \E s \in {1, 2} :
       \/ GetUserState(s, {})
       \/ MediaUpsert(s, {})
       \/ ClearUserState(s, {})

SpecRedeliver == InitRedeliver /\ [][NextRedeliver]_vars

(***************************************************************************)
(* An upload at every step of the dialogs, then a text                     *)
(***************************************************************************)
UploadEvents ==
  {PhotoMsg(ADMIN_CHAT_ID, <<"stall", SP, "Expo2025">>, PhotoSizes),
   VideoMsg(ADMIN_CHAT_ID, <<"event", SP, "Night">>, VideoFile)}

UploadTexts == Admin({<<"stall">>, UrlWatchA})

\* Slot 1 handles the upload, whose store calls may fail; slot 2 the text
\* that follows it.
NextUpload ==
  \/ DeliverOnce(1, UploadEvents)
  \/ GetUserState(1, {"getUserState"})
  \/ MediaUpsert(1, {"mediaUpsert"})
  \/ UpdateConfig(1, {})
  \/ ClearUserState(1, {})
  \/ /\ handlers[1].pc = "done"
     /\ DeliverOnce(2, UploadTexts)
  \/ GetUserState(2, {})
  \/ SetUserState(2, {})
  \/ ClearUserState(2, {})
  \/ UpdateConfig(2, {})
  \/ MediaUpsert(2, {})
  \/ MediaDelete(2, {})
  \/ MediaUpdate(2, {})
  \/ BlockInsert(2, {})
  \/ BlockDelete(2, {})
  \/ Connect(2, {})
  \/ Begin(2, {})
  \/ BatchRow(2, {})
  \/ Commit(2, {})

SpecUpload == InitDialog /\ [][NextUpload]_vars

(***************************************************************************)
(* Properties                                                              *)
(***************************************************************************)
Done(h) == h.pc = "done"
IsCommand(h) == startsWith(h.text, <<"/">>)
FromAdmin(h) == h.pc # "free" /\ h.msg.chat = ADMIN_CHAT_ID
PlainText(h) == FromAdmin(h) /\ h.msg.kind = "text" /\ ~IsCommand(h)

\* The handler of slot s is the last one started.
Latest(s) == \A t \in Slots : t > s => handlers[t].pc = "free"
Quiet == \A t \in Slots : ~Busy(handlers[t])

\* The conversation state of the administrator as stored now.
Persisted == SelectUserState(ADMIN_CHAT_ID)
\* The conversation state stored when the event of h arrived.
PersistedAt(h) ==
  IF h.user0 = {} THEN IdleState
  ELSE LET r == CHOOSE r \in h.user0 : TRUE IN
         [state |-> r.state, context |-> r.context]

Writes(h) == Entries(h, "write")
ReplyTags(h) == [i \in 1..Len(Replies(h)) |-> Replies(h)[i][2]]

RecognizedUrls == {UrlWatchA, UrlShortA, UrlDriveB}
ResolvedLink(url) == IF url = UrlDriveB THEN LinkB ELSE LinkA

\* C1: an event of an actor other than the administrator is answered with
\* the fixed rejection and nothing else: its handler ends at once, reads
\* and writes no conversation state, and the step that handles it changes
\* no table and no block list.
StrangerOnlyRejected ==
  \A s \in Slots :
    LET h == handlers[s] IN
      (h.pc # "free" /\ h.msg.chat # ADMIN_CHAT_ID) =>
        /\ Done(h)
        /\ h.log = << <<"reply", "unauthorized">> >>

StrangerChangesNothing ==
  \A s \in Slots :
    (handlers'[s] # handlers[s] /\ handlers'[s].msg.chat # ADMIN_CHAT_ID) =>
      UNCHANGED <<user_state, media, site_config, blocked_ips, blockedIPs, notifier>>

C1_Unauthorized == []StrangerOnlyRejected /\ [][StrangerChangesNothing]_vars

\* Reached: a stranger's video arrived while the administrator was in the
\* middle of a dialog, and was rejected.
C1_Witness ==
  \E s \in Slots :
    /\ Done(handlers[s])
    /\ handlers[s].msg.chat = StrangerChatId
    /\ handlers[s].msg.kind = "video"
    /\ Persisted.state = "awaiting_add_project"

\* The state a command leaves the administrator in.
Designated(h) ==
  LET command == CommandOf(h.text) IN
    IF IsStateCommand(command) THEN CommandState[command[2]] ELSE "idle"

\* C2: while the batch step is in its transaction, and after it when a call
\* of the transaction failed, the media table every reader sees is the
\* table as it was before the step: no record of the batch is added or
\* changed, so no part of the batch is ever visible.
C2_BatchAllOrNothing ==
  \A s \in Slots :
    LET h == handlers[s] IN
      (PlainText(h) /\ h.state = "awaiting_batch_project"
         /\ (h.pc \in {"connect", "begin", "row", "commit", "rollback"}
               \/ Entries(h, "failed") # <<>>))
        => media = h.media0

\* Reached: the second row write of a two-link batch failed, after the first
\* one succeeded, and the step is over.
C2_Witness ==
  \E s \in Slots :
    LET h == handlers[s] IN
      /\ Done(h) /\ PlainText(h) /\ h.state = "awaiting_batch_project"
      /\ Len(h.context.value.links) = 2
      /\ h.log[3] = <<"failed", "row">>
      /\ h.arg = NoArg
      /\ media = h.media0

\* C3: a failed batch commit is answered with one failure reply and no
\* success reply, sends no notifier signal, and leaves the stored
\* conversation state idle with a null context.
C3_BatchFailureReply ==
  \A s \in Slots :
    LET h == handlers[s] IN
      (Done(h) /\ PlainText(h) /\ h.state = "awaiting_batch_project"
         /\ Entries(h, "failed") # <<>>)
        => /\ Len(Replies(h)) = 1
           /\ ReplyTags(h)[1] \in {"batch_error", "error"}
           /\ Broadcasts(h) = 0
           /\ user_state = {UserRow(IdleState)}

\* Reached: a row write failed, the rollback succeeded, the failure was
\* reported.
C3_Witness ==
  \E s \in Slots :
    LET h == handlers[s] IN
      /\ Done(h) /\ PlainText(h) /\ h.state = "awaiting_batch_project"
      /\ Entries(h, "failed") = << <<"failed", "row">> >>
      /\ ReplyTags(h) = <<"batch_error">>

\* C4: a slash-command received in a state other than idle first stores
\* idle with a null context, before any reply, write or signal; it runs no
\* step of the dialog that was waiting (its only possible write is the
\* site status of /pause and /resume); and the state stored after it is the
\* one the command designates.
C4_CommandResets ==
  \A s \in Slots :
    LET h == handlers[s] IN
      (Done(h) /\ FromAdmin(h) /\ h.msg.kind = "text" /\ IsCommand(h)
         /\ PersistedAt(h).state # "idle")
        => /\ Len(h.log) >= 2
           /\ h.log[1] = <<"read", "user_state">>
           /\ h.log[2] = <<"state", "idle">>
           /\ Writes(h) = IF CommandOf(h.text) \in {Cmd("pause"), Cmd("resume")}
                          THEN << <<"write", "site_config">> >> ELSE <<>>
           /\ Latest(s) => /\ media = h.media0
                          /\ Persisted = [state |-> Designated(h),
                                          context |-> NullContext]

\* Reached: /delete arrived in awaiting_add_project, which carries a context.
C4_Witness ==
  \E s \in Slots :
    LET h == handlers[s] IN
      /\ Done(h) /\ h.text = Cmd("delete")
      /\ PersistedAt(h).state = "awaiting_add_project"
      /\ Persisted = [state |-> "awaiting_delete_id", context |-> NullContext]

\* C6: every event of the administrator, in every stored state, gets a
\* reply, never the reply of the switch's default branch, and the stored
\* state is always a state of the table; a handler in flight is always at a
\* store call that has a continuation.
StoreCalls ==
  {"getUserState", "cmdClear", "setUserState", "clearUserState",
   "updateConfig", "mediaUpsert", "mediaDelete", "mediaUpdate", "blockInsert",
   "blockDelete", "listMedia", "connect", "begin", "row", "commit", "rollback"}

C6_Totality ==
  /\ \A r \in user_state : r.state \in StateNames
  /\ \A s \in Slots :
       LET h == handlers[s] IN
         /\ Busy(h) => h.pc \in StoreCalls
         /\ (Done(h) /\ FromAdmin(h))
              => Len(Replies(h)) >= 1 /\ ReplyTags(h)[1] # "confused"

\* Reached: a photo arrived in the middle of the batch dialog and was
\* answered, the dialog state still stored.
C6_Witness ==
  \E s \in Slots :
    LET h == handlers[s] IN
      /\ Done(h) /\ FromAdmin(h) /\ h.msg.kind = "photo"
      /\ ReplyTags(h) = <<"photo_added">>
      /\ Persisted.state = "awaiting_batch_category"

\* C5: when a plain text that fulfils a dialog step is still being handled
\* as a slash-command of the administrator arrives, then once both handlers
\* are over the stored state is the one the command set.
C5_CommandNotSwallowed ==
  \A s, t \in Slots :
    LET dialog == handlers[s]
        command == handlers[t]
    IN (/\ Done(dialog) /\ PlainText(dialog) /\ dialog.state # "idle"
        /\ Done(command) /\ FromAdmin(command) /\ IsCommand(command)
        /\ s \in command.earlier)
         => Persisted.state = Designated(command)

\* The step of a handler wrote no media and sent no signal.
NoMutation(h) == Writes(h) = <<>> /\ Broadcasts(h) = 0 /\ media = h.media0

\* The context the category step stores for the link of h.context.
ProjectContext(h) ==
  ObjectContext([fileId |-> h.context.value.id,
                 fileUniqueId |-> h.context.value.unique_id,
                 type |-> h.context.value.type,
                 category |-> toLowerCase(h.text)])

\* C7: the single add dialog. /add stores awaiting_add_link; a URL of a
\* recognized provider stores awaiting_add_category; the category text
\* stores awaiting_add_project; none of these steps writes media or sends a
\* signal.  The project text makes one media upsert and one signal and
\* stores idle.
C7_SingleAdd ==
  \A s \in Slots :
    LET h == handlers[s] IN
      (Done(h) /\ FromAdmin(h) /\ h.msg.kind = "text" /\ Latest(s)) =>
        /\ h.text = Cmd("add")
             => Persisted = [state |-> "awaiting_add_link", context |-> NullContext]
                /\ NoMutation(h)
        /\ (PlainText(h) /\ h.state = "awaiting_add_link"
              /\ h.text \in RecognizedUrls)
             => Persisted.state = "awaiting_add_category" /\ NoMutation(h)
        /\ (PlainText(h) /\ h.state = "awaiting_add_category")
             => Persisted = [state |-> "awaiting_add_project",
                             context |-> ProjectContext(h)]
                /\ NoMutation(h)
        /\ (PlainText(h) /\ h.state = "awaiting_add_project")
             => /\ Writes(h) = << <<"write", "media">> >>
                /\ Broadcasts(h) = 1
                /\ ReplyTags(h) = <<"added">>
                /\ Persisted = IdleState
                /\ HasMedia(media, h.context.value.fileUniqueId)
                /\ \A r \in h.media0 :
                     r.file_unique_id # h.context.value.fileUniqueId => r \in media
                /\ Cardinality(media) <= Cardinality(h.media0) + 1

\* Reached: the project text "Expo2025" ended an add of a drive link with
\* category "stall", next to a link added before.
C7_Witness ==
  LET h == handlers[1] IN
    /\ Done(h) /\ PlainText(h) /\ h.state = "awaiting_add_project"
    /\ h.text = <<"Expo2025">>
    /\ h.context.value.category = <<"stall">>
    /\ Cardinality(h.media0) = 1
    /\ \E r \in media :
         /\ r.file_unique_id = IdGdriveB /\ r.category = <<"stall">>
         /\ r.project_name = <<"Expo2025">>
    /\ Cardinality(media) = 2

\* C8: the delete dialog. /delete stores awaiting_delete_id; a text that is
\* the id of no record is answered not-found, changes no media, sends no
\* signal and leaves awaiting_delete_id stored; the id of a record removes
\* that record and no other, stores idle and sends one signal.
C8_Delete ==
  \A s \in Slots :
    LET h == handlers[s] IN
      (Done(h) /\ FromAdmin(h) /\ h.msg.kind = "text" /\ Latest(s)) =>
        /\ h.text = Cmd("delete")
             => Persisted = [state |-> "awaiting_delete_id", context |-> NullContext]
        /\ (PlainText(h) /\ h.state = "awaiting_delete_id"
              /\ ~HasMedia(h.media0, h.text))
             => /\ ReplyTags(h) = <<"not_found">>
                /\ NoMutation(h)
                /\ Persisted = [state |-> "awaiting_delete_id",
                                context |-> NullContext]
        /\ (PlainText(h) /\ h.state = "awaiting_delete_id"
              /\ HasMedia(h.media0, h.text))
             => /\ ReplyTags(h) = <<"deleted">>
                /\ media = {r \in h.media0 : r.file_unique_id # h.text}
                /\ Cardinality(media) = Cardinality(h.media0) - 1
                /\ Broadcasts(h) = 1
                /\ Persisted = IdleState

\* Reached: after a not-found attempt, the id of one of two records was
\* sent and that record was removed.
C8_Witness ==
  LET h == handlers[1] IN
    /\ Done(h) /\ PlainText(h) /\ h.state = "awaiting_delete_id"
    /\ h.prev = << <<"reply", "not_found">> >>
    /\ Cardinality(h.media0) = 2
    /\ ReplyTags(h) = <<"deleted">>

\* C9: in awaiting_add_link a text the link resolver does not resolve is
\* answered with the re-prompt and changes neither the stored state and
\* context nor any table; a recognized URL then stores
\* awaiting_add_category with the resolved link, whatever was sent before.
C9_InvalidLinkKeepsStep ==
  \A s \in Slots :
    LET h == handlers[s] IN
      (Done(h) /\ PlainText(h) /\ h.state = "awaiting_add_link" /\ Latest(s)) =>
        /\ ~parseExternalLink(h.text).ok
             => /\ ReplyTags(h) = <<"invalid_link">>
                /\ user_state = h.user0
                /\ Persisted = [state |-> "awaiting_add_link",
                                context |-> NullContext]
                /\ NoMutation(h)
                /\ Entries(h, "state") = <<>>
        /\ h.text \in RecognizedUrls
             => /\ ReplyTags(h) = <<"link_received">>
                /\ Persisted = [state |-> "awaiting_add_category",
                                context |-> ObjectContext(ResolvedLink(h.text))]

\* Reached: a recognized URL was accepted right after a URL of an
\* unsupported provider had been refused.
C9_Witness ==
  LET h == handlers[1] IN
    /\ Done(h) /\ PlainText(h) /\ h.state = "awaiting_add_link"
    /\ h.prev = << <<"reply", "invalid_link">> >>
    /\ h.text = UrlDriveB
    /\ Persisted.state = "awaiting_add_category"

\* C10: the last step of an add of a link that is in the catalog leaves the
\* number of records unchanged, and when the category and the project it
\* stores are those of the record, the catalog is what it was.
C10_ReAddUpserts ==
  \A s \in Slots :
    LET h == handlers[s] IN
      (Done(h) /\ PlainText(h) /\ h.state = "awaiting_add_project"
         /\ HasMedia(h.media0, h.context.value.fileUniqueId))
        => /\ Cardinality(media) = Cardinality(h.media0)
           /\ LET parsed == parseMediaCaption(h.context.value.category
                                                \o <<SP>> \o h.text)
              IN (\E r \in h.media0 :
                    /\ r.file_unique_id = h.context.value.fileUniqueId
                    /\ r.category = parsed.category
                    /\ r.project_name = parsed.projectName)
                   => media = h.media0

\* Reached: the link of a record was added again with the category and the
\* project of the record, at a later time than the first add.
C10_Witness ==
  LET h == handlers[1] IN
    /\ Done(h) /\ PlainText(h) /\ h.state = "awaiting_add_project"
    /\ h.text = <<"Expo2025">> /\ h.context.value.category = <<"stall">>
    /\ \E r \in h.media0 :
         /\ r.file_unique_id = h.context.value.fileUniqueId
         /\ r.category = <<"stall">> /\ r.project_name = <<"Expo2025">>
         /\ r.timestamp < now
    /\ ReplyTags(h) = <<"added">>

\* The lines of the text a handler of the batch link step was given, and
\* the links the step stored.
Lines(h) == split(h.text, "\n")
StoredLinks ==
  IF Persisted.state = "awaiting_batch_category" /\ Persisted.context.tag = "array"
  THEN Persisted.context.value ELSE <<>>
AtBatchLinks(h) == Done(h) /\ PlainText(h) /\ h.state = "awaiting_batch_links"

\* C11: the unique id of a resolved link depends on its provider and its
\* external id and on nothing else.  The same URL twice gives the same
\* link; two URLs of the providers get the same unique id exactly when
\* they denote the same video of the same provider; two resolved links have
\* the same unique id exactly when provider and external id are the same.
C11_UniqueIdFunction ==
  \A s \in Slots :
    LET h == handlers[s]
        lines == Lines(h)
        links == StoredLinks
    IN AtBatchLinks(h) =>
         /\ \A i, j \in 1..Len(links) :
              links[i].unique_id = links[j].unique_id
                <=> (links[i].type = links[j].type /\ links[i].id = links[j].id)
         /\ (Len(lines) = 2 /\ lines[1] = lines[2])
              => Len(links) \in {0, 2} /\ (Len(links) = 2 => links[1] = links[2])
         /\ \A f, g \in ProviderForms :
              lines = <<f.url, g.url>>
                => /\ Len(links) = 2
                   /\ links[1].unique_id = links[2].unique_id
                        <=> (f.type = g.type /\ f.id = g.id)

\* Reached: the short form and the watch form of one video, sent as two
\* lines, were stored with one unique id.
C11_Witness ==
  LET h == handlers[1] IN
    /\ AtBatchLinks(h)
    /\ Lines(h) = <<ShortUrl(<<"a">>), WatchUrl(<<"a">>)>>
    /\ Len(StoredLinks) = 2
    /\ StoredLinks[1].unique_id = IdYoutubeA
    /\ StoredLinks[2].unique_id = IdYoutubeA

\* C12: the resolver gives the empty result for every text that is no URL,
\* every provider URL without the id component, and every URL whose host is
\* not a host of one of the two providers.
C12_OnlyProviderHosts ==
  \A s \in Slots :
    LET h == handlers[s] IN
      (AtBatchLinks(h) /\ h.text \in MalformedOrIncomplete \cup ForeignHosts)
        => /\ StoredLinks = <<>>
           /\ ReplyTags(h) = <<"no_valid_links">>

\* C13: every handler that changed a table (site_config, media,
\* blocked_ips) sent the change signal once, after the change.
C13_MutationSignalledOnce ==
  \A s \in Slots :
    LET h == handlers[s] IN
      (Done(h) /\ FromAdmin(h) /\ Writes(h) # <<>>)
        => /\ Broadcasts(h) = 1
           /\ \E i, j \in 1..Len(h.log) :
                i < j /\ h.log[i][1] = "write" /\ h.log[j][1] = "broadcast"

\* The replies that carry an error of the store.
ErrorReplies == {"error", "upload_error", "batch_error", "list_error"}
\* The store calls of h that failed.
Failed(h) == {Entries(h, "failed")[i][2] : i \in 1..Len(Entries(h, "failed"))}

\* C14: when the write of a committing step fails, and no other call of
\* the handler does, the administrator gets a reply that carries the error
\* and no other reply, and the stored state is idle.
C14_WriteFailureReported ==
  \A s \in Slots :
    LET h == handlers[s] IN
      (Done(h) /\ FromAdmin(h) /\ Latest(s)
         /\ Cardinality(Failed(h)) = 1 /\ Failed(h) \subseteq WriteCalls)
        => /\ Len(Replies(h)) = 1
           /\ ReplyTags(h)[1] \in ErrorReplies
           /\ Persisted = IdleState

\* C15: when the load or a write of the conversation state fails, the
\* administrator gets a failure reply and no other reply.
C15_StateFailureReported ==
  \A s \in Slots :
    LET h == handlers[s] IN
      (Done(h) /\ FromAdmin(h) /\ Failed(h) # {} /\ Failed(h) \subseteq StateCalls)
        => /\ Replies(h) # <<>>
           /\ \A i \in 1..Len(Replies(h)) : ReplyTags(h)[i] \in ErrorReplies

\* The states whose dialog stores a context with them.
ContextStates ==
  {"awaiting_add_category", "awaiting_add_project", "awaiting_batch_category",
   "awaiting_batch_project", "awaiting_edittitle_value",
   "awaiting_editdesc_value"}

\* C16: at any time, also between the steps of interleaved handlers, there
\* is at most one stored conversation state per actor, a stored context is
\* not null only with a state that carries a context, and idle is stored
\* with a null context.
C16_OneStateContextShape ==
  /\ \A r1, r2 \in user_state : r1.chat_id = r2.chat_id => r1 = r2
  /\ \A r \in user_state :
       /\ r.context # NullContext => r.state \in ContextStates
       /\ r.state = "idle" => r.context = NullContext

\* Reached: a command and a dialog text were handled concurrently and the
\* state stored last carries a context.
C16_Witness ==
  /\ Done(handlers[1]) /\ Done(handlers[2])
  /\ 1 \in handlers[2].earlier
  /\ IsCommand(handlers[1]) /\ PlainText(handlers[2])
  /\ Entries(handlers[1], "state") # <<>>
  /\ Persisted.state \in ContextStates
  /\ Persisted.context # NullContext

\* The first-token rule: the category is the first word when that is a
\* category word, and the project is the rest; otherwise general and the
\* whole caption.
FirstTokenRule(caption) ==
  LET words == split(caption, SP)
      first == toLowerCase(words[1])
  IN IF first \in categoryWords
     THEN [category |-> first, project |-> join(Tail(words), SP)]
     ELSE [category |-> <<"general">>, project |-> caption]

\* C17: an upload is stored with the category the first-token rule gives
\* for its caption, and with the project the rule gives (its first letter
\* in upper case, punctuation removed, as every project name is stored).
C17_FirstTokenRule ==
  \A s \in Slots :
    LET h == handlers[s]
        rule == FirstTokenRule(h.msg.caption)
    IN (Done(h) /\ FromAdmin(h) /\ h.msg.kind \in {"photo", "video"}
          /\ Writes(h) # <<>> /\ Latest(s))
         => \A r \in media :
              /\ r.category = rule.category
              /\ r.project_name =
                   StripNonAlnum(IF rule.project = <<>> THEN <<>>
                                 ELSE <<UpperFirstAtom(rule.project[1])>>
                                        \o Tail(rule.project))

\* C18: a photo in awaiting_profilephoto makes one config upsert, of the
\* profile photo, changes no media, and stores idle; a photo in any other
\* state makes one media upsert of a row of type photo, writes no config,
\* and leaves the stored state as it was.
C18_PhotoDispatch ==
  \A s \in Slots :
    LET h == handlers[s]
        photo == h.msg.photo[Len(h.msg.photo)]
    IN (Done(h) /\ FromAdmin(h) /\ h.msg.kind = "photo" /\ Latest(s)) =>
         IF h.state = "awaiting_profilephoto"
         THEN /\ Writes(h) = << <<"write", "site_config">> >>
              /\ site_config.profile_photo_file_id = photo.file_id
              /\ media = h.media0
              /\ ReplyTags(h) = <<"photo_updated">>
              /\ Persisted = IdleState
         ELSE /\ Writes(h) = << <<"write", "media">> >>
              /\ \E r \in media :
                   /\ r.file_unique_id = photo.file_unique_id
                   /\ r.file_id = photo.file_id
                   /\ r.type = "photo"
                   /\ media = h.media0 \cup {r}
              /\ ReplyTags(h) = <<"photo_added">>
              /\ Persisted = PersistedAt(h)

\* Reached: a photo with a caption was taken as the profile photo.
C18_Witness ==
  \E s \in Slots :
    LET h == handlers[s] IN
      /\ Done(h) /\ h.msg.kind = "photo" /\ h.state = "awaiting_profilephoto"
      /\ h.msg.caption # <<>>
      /\ site_config.profile_photo_file_id = <<"p1large">>
      /\ h.media0 # {} /\ media = h.media0

\* The URLs of LinkInputs the resolver resolves, each with the link it
\* stands for: the provider URLs, and the URL whose foreign host contains
\* youtube.com.
ResolvedForms ==
  ProviderForms
    \cup {[url |-> u, type |-> "youtube", id |-> <<"a">>] :
            u \in ForeignHosts \ {UrlVimeo}}

\* The lines of a text that resolve, as links, in the order of the text.
DenotedLinks(lines) ==
  LET urls == SelectSeq(lines, LAMBDA u : \E f \in ResolvedForms : f.url = u)
  IN [i \in 1..Len(urls) |->
        LET f == CHOOSE f \in ResolvedForms : f.url = urls[i] IN
          [type |-> f.type, id |-> f.id, unique_id |-> <<f.type, "-">> \o f.id]]

\* C19: in awaiting_batch_links, a text with at least one line that
\* resolves stores awaiting_batch_category with exactly the resolved links,
\* in the order of the text, the other lines dropped; a text with no such
\* line gets the re-prompt and changes neither the stored state nor any
\* table.
C19_BatchLinksStep ==
  \A s \in Slots :
    LET h == handlers[s]
        lines == [i \in 1..Len(Lines(h)) |-> trim(Lines(h)[i])]
        expected == DenotedLinks(lines)
    IN (AtBatchLinks(h) /\ Latest(s)
          /\ \A i \in 1..Len(lines) :
               lines[i] \in LinkInputs)
         => /\ NoMutation(h)
            /\ IF Len(expected) >= 1
               THEN /\ Persisted = [state |-> "awaiting_batch_category",
                                    context |-> ArrayContext(expected)]
                    /\ ReplyTags(h) = <<"batch_links_received">>
               ELSE /\ user_state = h.user0
                    /\ ReplyTags(h) = <<"no_valid_links">>

\* Reached: of three lines the second, of another site, was dropped and
\* the first and the third were stored in that order.
C19_Witness ==
  LET h == handlers[1] IN
    /\ AtBatchLinks(h) /\ h.text = BatchText
    /\ Len(Lines(h)) = 3
    /\ StoredLinks = <<LinkA, LinkB>>

\* The responses a request got.
Responses(h) == {h.log[i][2] : i \in {j \in 1..Len(h.log) : h.log[j][1] = "response"}}

\* C20: while the site status is paused, a request to any path other than the
\* webhook path is answered with the maintenance response, whether or not the
\* caller is on the block list; a request to the webhook path is never
\* answered with it; once the status is live again no request is.
C20_PauseGate ==
  [][\A s \in Slots :
       LET h == handlers'[s] IN
         (h # handlers[s] /\ h.msg.kind = "request" /\ h.pc = "done")
           => /\ (site_config.site_status = <<"paused">> /\ h.text # WebhookPath)
                   => Responses(h) = {"503"}
              /\ (h.text = WebhookPath) => "503" \notin Responses(h)
              /\ (site_config.site_status = <<"live">>)
                   => "503" \notin Responses(h)]_vars

\* A request arrives in slot s in this step.
Arrives(s) ==
  /\ ~Busy(handlers[s])
  /\ handlers'[s] # handlers[s]
  /\ handlers'[s].msg.kind = "request"

\* C21: a request from a blocked address is answered Forbidden before
\* anything else is done with it: no other gate, no store read, no other
\* response.
C21_ForbiddenFirst ==
  [][\A s \in Slots :
       (Arrives(s) /\ handlers'[s].msg.chat \in blockedIPs)
         => /\ handlers'[s].pc = "done"
            /\ handlers'[s].log = <<<<"response", "403">>>>]_vars

\* A request in slot s gets its response in this step.
Answered(s) ==
  /\ handlers'[s] # handlers[s]
  /\ handlers'[s].msg.kind = "request"
  /\ handlers'[s].pc = "done"

\* The store call pc of slot s completes in this step without an error.
Completes(s, pc) ==
  /\ handlers[s].pc = pc
  /\ handlers'[s].pc # pc
  /\ Entries(handlers'[s], "failed") = <<>>

\* C22: the block step for address X puts X on the block list and the
\* unblock step takes it off (nothing changes when X is already blocked,
\* respectively not blocked); no other step changes the list; and a request
\* answered while the site is live is answered Forbidden exactly when its
\* caller is on the list.
C22_BlockUnblock ==
  [][/\ \A s \in Slots :
          /\ Completes(s, "blockInsert")
               => /\ blockedIPs' = blockedIPs \cup {handlers[s].text}
                  /\ blocked_ips' = blocked_ips \cup {handlers[s].text}
          /\ Completes(s, "blockDelete")
               => /\ blockedIPs' = blockedIPs \ {handlers[s].text}
                  /\ blocked_ips' = blocked_ips \ {handlers[s].text}
          /\ (Answered(s) /\ site_config.site_status = <<"live">>)
               => ("403" \in Responses(handlers'[s])
                     <=> handlers'[s].msg.chat \in blockedIPs)
     /\ (\A s \in Slots : handlers[s].pc \notin {"blockInsert", "blockDelete"})
          => /\ blockedIPs' = blockedIPs
             /\ blocked_ips' = blocked_ips]_vars

\* The visitor's address was blocked by the dialog and a request from it was
\* then answered Forbidden while the site was live.
C22_Witness ==
  /\ handlers[1].pc = "done" /\ handlers[1].state = "awaiting_block_ip"
  /\ handlers[1].text = Ips.visitor
  /\ handlers[2].pc = "done" /\ handlers[2].msg.kind = "request"
  /\ handlers[2].msg.chat = Ips.visitor
  /\ site_config.site_status = <<"live">>
  /\ Responses(handlers[2]) = {"403"}

\* The handler of slot s takes this step (its arrival included).
Steps(s) == handlers'[s] # handlers[s] /\ handlers'[s].pc # "free"

IsHelp(h) ==
  FromAdmin(h) /\ h.msg.kind = "text" /\ CommandOf(h.text) = Cmd("help")

\* C27: /help, in whatever state and with whatever context stored, reads the
\* state, stores idle with a null context and sends the help text, nothing
\* else; no step of its handler changes the config, the media or the block
\* list, and it sends no signal.
C27_HelpResets ==
  /\ [](\A s \in Slots :
          LET h == handlers[s] IN
            (Done(h) /\ IsHelp(h))
              => /\ h.log = << <<"read", "user_state">>, <<"state", "idle">>,
                              <<"reply", "help">> >>
                 /\ Latest(s) => Persisted = IdleState)
  /\ [][\A s \in Slots :
          (Steps(s) /\ IsHelp(handlers'[s]))
            => UNCHANGED <<media, site_config, blocked_ips, blockedIPs, notifier>>]_vars

\* Reached: /help arrived in awaiting_batch_project, whose context is an
\* object with the links of the batch, and the stored state is idle.
C27_Witness ==
  \E s \in Slots :
    LET h == handlers[s] IN
      /\ Done(h) /\ IsHelp(h)
      /\ PersistedAt(h).state = "awaiting_batch_project"
      /\ PersistedAt(h).context.tag = "object"
      /\ Persisted = IdleState

IsIdleText(h) == PlainText(h) /\ PersistedAt(h).state = "idle"

\* C28: a plain text that arrives while the stored state is idle is answered
\* with the guidance reply and nothing else: no step of its handler changes
\* a table or the block list, no signal is sent, and the state stays idle.
C28_IdleText ==
  /\ [](\A s \in Slots :
          LET h == handlers[s] IN
            (Done(h) /\ IsIdleText(h))
              => /\ h.log = << <<"read", "user_state">>,
                              <<"reply", "idle_guidance">> >>
                 /\ Latest(s) => Persisted.state = "idle")
  /\ [][\A s \in Slots :
          (Steps(s) /\ IsIdleText(handlers'[s]))
            => UNCHANGED <<user_state, media, site_config, blocked_ips,
                           blockedIPs, notifier>>]_vars

\* Reached: a URL the add dialog would accept arrived in state idle, on a
\* catalog with a record, and only the guidance was sent.
C28_Witness ==
  \E s \in Slots :
    LET h == handlers[s] IN
      /\ Done(h) /\ IsIdleText(h) /\ h.text = UrlWatchA
      /\ ReplyTags(h) = <<"idle_guidance">>
      /\ media = {RowA} /\ user_state = h.user0

\* The column the value step of the edit dialog writes.
EditColumn ==
  [awaiting_edittitle_value |-> "project_name",
   awaiting_editdesc_value |-> "caption"]

\* C29: at the value step of the edit dialog, when the id in the context is
\* no record's id the administrator gets the not-found reply, no success
\* reply, and the catalog is unchanged; when it is a record's id, exactly
\* that field of that record is updated and the stored state is idle.
C29_EditNotFound ==
  \A s \in Slots :
    LET h == handlers[s] IN
      (Done(h) /\ PlainText(h) /\ h.state \in DOMAIN EditColumn /\ Latest(s))
        => IF HasMedia(h.media0, h.context.value)
           THEN /\ ReplyTags(h) = <<"edited">>
                /\ media = UpdateMedia(h.media0, h.context.value,
                                       EditColumn[h.state], h.text)
                /\ Persisted = IdleState
           ELSE /\ ReplyTags(h) = <<"not_found">>
                /\ media = h.media0

\* The unique ids of the links the project step of h commits.
CommittedIds(h) ==
  IF h.state = "awaiting_add_project" THEN {h.context.value.fileUniqueId}
  ELSE {h.context.value.links[i].unique_id :
          i \in 1..Len(h.context.value.links)}

\* C30: when the category stored by the category step is one of the fixed
\* categories, every record the project step commits has that category,
\* whatever the project text, and the records of one batch have the same
\* category and project name.
C30_CategoryKept ==
  \A s \in Slots :
    LET h == handlers[s] IN
      (/\ Done(h) /\ PlainText(h)
       /\ h.state \in {"awaiting_add_project", "awaiting_batch_project"}
       /\ h.context.value.category \in categoryWords)
        => /\ \A id \in CommittedIds(h) :
                \E r \in media : /\ r.file_unique_id = id
                                 /\ r.category = h.context.value.category
           /\ \A r1, r2 \in media :
                {r1.file_unique_id, r2.file_unique_id} \subseteq CommittedIds(h)
                  => /\ r1.category = r2.category
                     /\ r1.project_name = r2.project_name

\* C23: the notifier's list holds exactly the connections that are open,
\* each once: a disconnect removes its own connection and no other, also
\* when two connected at the same instant, and a repeated disconnect changes
\* nothing.
C23_RegisteredAreOpen ==
  /\ Registered = {c \in Channels : channels[c].status = "open"}
  /\ Len(sseClients) = Cardinality(Registered)

\* C24: after a publish, a connection whose write failed is off the list,
\* the publish has not raised, and every other connection on the list got
\* the signal once.
C24_FailedWriteUnregisters ==
  \A c \in Channels :
    published.wrote[c] = "failed"
      => /\ c \notin Registered
         /\ ~published.threw
         /\ \A d \in Registered \ {c} :
              published.wrote[d] = "failed" \/ published.wrote[d] = "ok"

\* The answer of a content request that was answered with the projection:
\* record id -> "url" (in the response) or "null" (left out).
Projected(h) == Entries(h, "json")[1][2]

\* C25: when a content projection is over, every record read whose url
\* could not be resolved is out of the response and out of the catalog,
\* every record whose url resolved is in both, and each removal is followed
\* by a signal.
C25_StaleEvicted ==
  \A s \in Slots :
    LET h == handlers[s] IN
      (Done(h) /\ h.msg.kind = "request" /\ Entries(h, "json") # <<>>)
        => /\ \A r \in h.media0 :
                IF Projected(h)[r.file_unique_id] = "url"
                THEN r \in media ELSE r \notin media
           /\ \A i \in 1..Len(h.log) :
                h.log[i] = <<"write", "media">>
                  => i < Len(h.log) /\ h.log[i + 1] = <<"broadcast", "update">>

IsClick(h) == h.pc = "done" /\ h.msg.kind = "request" /\ h.text = ClickPath

LinkCommit(h) ==
  /\ h.msg.kind = "text"
  /\ h.state \in {"awaiting_add_project", "awaiting_batch_project"}

C31_CreatedAtSetOnce ==
  [][\A r \in media, r2 \in media' :
       r2.file_unique_id = r.file_unique_id =>
         /\ r2.timestamp = r.timestamp
         /\ (\E s \in Slots : Busy(handlers[s]) /\ LinkCommit(handlers[s]))
              => r2.caption = r.caption]_vars

\* Reached: a link stored earlier with a note was added again under another
\* project name, at a later clock value than its timestamp.
C31_Witness ==
  \E s \in Slots, r \in media :
    /\ Done(handlers[s])
    /\ LinkCommit(handlers[s])
    /\ NotedRowA \in handlers[s].media0
    /\ r.file_unique_id = IdYoutubeA
    /\ r.project_name = <<"Expo2026">>
    /\ r.caption = <<"note">>
    /\ r.timestamp < now

\* C32: every record of the media table has a category among general,
\* anamorphic, event, stall and a type among photo, video, youtube, gdrive,
\* whatever texts were entered at the category and project prompts and in
\* captions.
C32_CategoryAndKind ==
  \A r \in media :
    /\ r.category \in categoryWords
    /\ r.type \in {"photo", "video", "youtube", "gdrive"}

\* Reached: a link was stored by a dialog whose category text is none of
\* the four categories.
C32_Witness ==
  \E s \in Slots, r \in media :
    /\ Done(handlers[s])
    /\ LinkCommit(handlers[s])
    /\ handlers[s].context.value.category = <<"expo2025">>
    /\ r.file_unique_id = IdYoutubeA
    /\ r \notin handlers[s].media0

\* C33: once a block or unblock step has completed and no handler is in
\* flight, the in-memory set the block gate reads equals the stored block
\* list, also after a failed statement and after block and unblock steps
\* for one address that were in flight together.
BlockStepDone(h) ==
  /\ Done(h)
  /\ PlainText(h)
  /\ h.state \in {"awaiting_block_ip", "awaiting_unblock_ip"}

C33_SetEqualsList ==
  (Quiet /\ \E s \in Slots : BlockStepDone(handlers[s]))
    => blockedIPs = blocked_ips

\* C34: a handler sends the change signal only after it changed a row of
\* site_config or media; the value step of an edit and the delete step send
\* none when the id they got is no record's id.
UnmatchedId(h) ==
  /\ PlainText(h)
  /\ \/ h.state \in DOMAIN EditColumn /\ ~HasMedia(h.media0, h.context.value)
     \/ h.state = "awaiting_delete_id" /\ ~HasMedia(h.media0, h.text)

C34_SignalOnlyOnChange ==
  \A s \in Slots :
    LET h == handlers[s] IN
      /\ \A i \in 1..Len(h.log) :
           h.log[i][1] = "broadcast" => \E j \in 1..(i - 1) : h.log[j][1] = "write"
      /\ (Done(h) /\ UnmatchedId(h)) => Broadcasts(h) = 0

\* C35: a request to /api/content sends as many change signals as it removed
\* records from the catalog; one that removed none sends none, also when
\* the profile photo cannot be resolved.
C35_ProjectionSignalsRemovals ==
  \A s \in Slots :
    LET h == handlers[s] IN
      (h.msg.kind = "request" /\ h.pc # "free")
        => Broadcasts(h) = Len(Writes(h))

\* The payload each state's case of the switch reads from the context.
IsLink(l) == DOMAIN l = {"type", "id", "unique_id"}

ContextShape(state, context) ==
  CASE state = "awaiting_add_category" ->
         IsObject(context, {"type", "id", "unique_id"})
    [] state = "awaiting_add_project" ->
         IsObject(context, {"fileId", "fileUniqueId", "type", "category"})
    [] state = "awaiting_batch_category" ->
         /\ context.tag = "array"
         /\ \A i \in 1..Len(context.value) : IsLink(context.value[i])
    [] state = "awaiting_batch_project" ->
         /\ IsObject(context, {"links", "category"})
         /\ \A i \in 1..Len(context.value.links) : IsLink(context.value.links[i])
    [] state \in {"awaiting_edittitle_value", "awaiting_editdesc_value"} ->
         context.tag = "text"
    [] OTHER -> TRUE

\* C36: with two updates of the administrator handled together, every
\* stored state that carries a context is stored with the payload its case
\* of the switch reads, every handler read such a state together with that
\* payload, and no handler ended in the catch block for a context it could
\* not read.
C36_ContextShape ==
  /\ \A r \in user_state : ContextShape(r.state, r.context)
  /\ \A s \in Slots :
       LET h == handlers[s] IN
         (FromAdmin(h) /\ h.pc # "getUserState")
           => /\ ContextShape(h.state, h.context)
              /\ \A i \in 1..Len(h.log) : h.log[i] # <<"reply", "error">>

\* Reached: the project step committed a link from the context that the
\* category step, still in flight when the project text arrived, had stored.
C36_Witness ==
  /\ Done(handlers[1]) /\ Done(handlers[2])
  /\ 1 \in handlers[2].earlier
  /\ handlers[1].state = "awaiting_add_category"
  /\ handlers[2].state = "awaiting_add_project"
  /\ ReplyTags(handlers[2]) = <<"added">>

\* C37: when the project text that ends the single add dialog has been
\* delivered twice and both handlers are over, the catalog holds exactly one
\* record of the link, with the link, the category and the project name of
\* the dialog, every other record is as it was, and the stored state is
\* idle.
C37_DeliveredTwice ==
  (/\ Done(handlers[1]) /\ Done(handlers[2])
   /\ handlers[2].msg = handlers[1].msg
   /\ handlers[1].state = "awaiting_add_project")
    => LET c == handlers[1].context.value
           rows == {r \in media : r.file_unique_id = c.fileUniqueId}
       IN /\ Cardinality(rows) = 1
          /\ \A r \in rows :
               /\ r.file_id = c.fileId
               /\ r.type = c.type
               /\ r.category = c.category
               /\ r.project_name = handlers[1].text
          /\ media \ rows = {r \in handlers[1].media0 :
                                r.file_unique_id # c.fileUniqueId}
          /\ Persisted = IdleState

\* Reached: the second delivery arrived while the first was being handled,
\* both handlers read the project step and both stored the link.
C37_Witness ==
  /\ Done(handlers[1]) /\ Done(handlers[2])
  /\ handlers[2].msg = handlers[1].msg
  /\ 1 \in handlers[2].earlier
  /\ ReplyTags(handlers[1]) = <<"added">>
  /\ ReplyTags(handlers[2]) = <<"added">>

\* The calls of h on the pool and on its client: connects that returned a
\* client, and releases.
Acquired(h) ==
  Len(SelectSeq(h.log, LAMBDA e : e = <<"client", "connect">>))
Released(h) ==
  Len(SelectSeq(h.log, LAMBDA e : e = <<"client", "release">>))

\* C38: the batch step holds its pooled client from db.connect() to the end
\* of its transaction and releases it exactly once: nothing is released
\* while a call of the transaction is awaited, and once the step is past
\* the transaction, on whatever path, every client it acquired has been
\* released once.
C38_ReleasedOnce ==
  \A s \in Slots :
    LET h == handlers[s] IN
      /\ Acquired(h) <= 1
      /\ Released(h) =
           IF h.pc \in {"begin", "row", "commit", "rollback"} THEN 0
           ELSE Acquired(h)

\* Reached: a row write failed, the ROLLBACK failed as well, the step is
\* over and its client has been released.
C38_Witness ==
  \E s \in Slots :
    LET h == handlers[s] IN
      /\ Done(h)
      /\ Failed(h) = {"row", "rollback"}
      /\ Acquired(h) = 1
      /\ Released(h) = 1

\* A photo outside awaiting_profilephoto, or a video, of the administrator.
IsUpload(h) ==
  /\ FromAdmin(h)
  /\ \/ h.msg.kind = "video"
     \/ h.msg.kind = "photo" /\ PersistedAt(h).state # "awaiting_profilephoto"

\* C39: no step of the handler of an upload changes the stored conversation
\* state or context, whether its write of the catalog succeeds or fails, and
\* the text handled after it reads the state and the context that were
\* stored when the upload arrived.
C39_UploadKeepsDialog ==
  /\ [](IsUpload(handlers[1]) /\ PlainText(handlers[2])
          /\ handlers[2].pc # "getUserState"
        => /\ handlers[2].state = PersistedAt(handlers[1]).state
           /\ handlers[2].context = PersistedAt(handlers[1]).context)
  /\ [][\A s \in Slots :
         (handlers'[s] # handlers[s] /\ IsUpload(handlers'[s]))
           => user_state' = user_state]_vars

\* Reached: a video whose write of the catalog failed arrived at the
\* category step of the batch dialog, and the text after it was taken as
\* the category.
C39_Witness ==
  /\ Done(handlers[1]) /\ Done(handlers[2])
  /\ handlers[1].msg.kind = "video"
  /\ ReplyTags(handlers[1]) = <<"upload_error">>
  /\ handlers[2].state = "awaiting_batch_category"
  /\ Persisted.state = "awaiting_batch_project"

Spec == SpecAdd
====
